---- MODULE Spec2Model ----
(***************************************************************************)
(* A model of docx2mdx: the table interpreter and field extractors of      *)
(* converter/parse.py, the record assembler of converter/prose.py, the     *)
(* enumeration checks of converter/verify.py and the colour converter of   *)
(* converter/utils.py, driven as dump.py / batch_convert.py drive them.    *)
(*                                                                         *)
(* Text.  A Python str is modelled as a sequence of tokens.  A token is a  *)
(* TLA+ string: either one character the patterns of the code look at on   *)
(* its own (" ", "\n", ":", ",", "[", "]", "'", "#", "(", ")", a digit, a  *)
(* hex letter, the double quote, the backslash) or an atom, a run of       *)
(* characters that no pattern of the code splits ("Layer name",            *)
(* "photo.png", "./media/").  The empty str is <<>>, concatenation is \o,  *)
(* and equality of strs is equality of token sequences.                    *)
(***************************************************************************)
EXTENDS Integers, Sequences, FiniteSets, TLC

(***************************************************************************)
(* Python values                                                           *)
(***************************************************************************)

\* Python's None, where a str may stand as well.
None == <<"<None>">>

\* The literal "Data not provided" of parse.py and prose.py.
Sentinel == <<"Data not provided">>

\* bool(v) of a str-or-None value.
Truthy(v) == v # None /\ v # <<>>

\* d.get(k, default) and d[k] = v on a dict, modelled as a function.
Get(d, k, default) == IF k \in DOMAIN d THEN d[k] ELSE default

Put(d, k, v) == [x \in (DOMAIN d) \cup {k} |-> IF x = k THEN v ELSE d[x]]

SetMin(S) == CHOOSE x \in S : \A y \in S : x <= y

SetMax(S) == CHOOSE x \in S : \A y \in S : x >= y

(***************************************************************************)
(* str methods                                                             *)
(***************************************************************************)

\* str.isspace on one character.
IsSpace(t) == t \in {" ", "\n", "\t"}

\* The letter-case pairs of the tokens the model's documents use; a token
\* outside the table has no upper-case letter.
CaseMap ==
    ("Media" :> "media") @@ ("Tags" :> "tags") @@ ("Layers" :> "layers") @@
    ("Description" :> "description") @@ ("Name" :> "name") @@ ("Id" :> "id") @@
    ("Content_Source" :> "content_source") @@
    ("Layer name" :> "layer name") @@ ("Layer id" :> "layer id") @@
    ("LAYER ID" :> "layer id") @@
    ("Layer description" :> "layer description") @@
    ("stacCol" :> "staccol") @@ ("Units" :> "units") @@
    ("Color ramp description" :> "color ramp description") @@
    ("Data format" :> "data format") @@ ("Projection" :> "projection") @@
    ("Legend type" :> "legend type") @@ ("Legend minimum" :> "legend minimum") @@
    ("Legend maximum" :> "legend maximum") @@
    ("Colormap name" :> "colormap name") @@ ("Resampling" :> "resampling") @@
    ("Rescale minimum" :> "rescale minimum") @@
    ("Rescale maximum" :> "rescale maximum") @@
    ("Image" :> "image") @@ ("Image text (alt)" :> "image text (alt)") @@
    ("Author name" :> "author name") @@ ("Author URL" :> "author url") @@
    ("Topic" :> "topic") @@ ("Sub" :> "sub") @@ ("Source" :> "source") @@
    ("Product Type" :> "product type") @@
    ("Value" :> "value") @@ ("VALUE" :> "value") @@ ("Header" :> "header") @@
    ("Extra" :> "extra") @@ ("Another" :> "another") @@ ("Third" :> "third") @@
    ("Start" :> "start") @@ ("End" :> "end") @@
    ("Data not provided" :> "data not provided") @@
    ("None" :> "none") @@ ("NULL" :> "null") @@ ("Null" :> "null") @@
    ("Viridis" :> "viridis") @@ ("Gradient" :> "gradient") @@
    ("Mercator" :> "mercator") @@ ("equalEarth" :> "equalearth") @@
    ("NASA" :> "nasa") @@ ("ESA" :> "esa") @@
    ("A" :> "a") @@ ("B" :> "b") @@ ("C" :> "c") @@
    ("D" :> "d") @@ ("E" :> "e") @@ ("F" :> "f")

\* str.lower, one token and a whole str.
LowerTok(t) == IF t \in DOMAIN CaseMap THEN CaseMap[t] ELSE t

Lower(s) == [i \in 1..Len(s) |-> LowerTok(s[i])]

\* str.upper on the hexadecimal letters (color_converter is its only user).
UpperTok(t) ==
    CASE t = "a" -> "A" [] t = "b" -> "B" [] t = "c" -> "C"
      [] t = "d" -> "D" [] t = "e" -> "E" [] t = "f" -> "F"
      [] OTHER -> t

Upper(s) == [i \in 1..Len(s) |-> UpperTok(s[i])]

\* str.strip(chars): the characters of `chars` removed from both ends.
StripChars(s, chars) ==
    LET keep == {i \in 1..Len(s) : s[i] \notin chars}
    IN  IF keep = {} THEN <<>> ELSE SubSeq(s, SetMin(keep), SetMax(keep))

\* str.strip().
Strip(s) == StripChars(s, {" ", "\n", "\t"})

\* The pattern `pat` (a str without wildcards) occurs in s at index p.
MatchAt(s, p, pat) ==
    /\ p >= 1
    /\ p + Len(pat) - 1 <= Len(s)
    /\ \A k \in 1..Len(pat) : s[p + k - 1] = pat[k]

\* The same under re.IGNORECASE.
MatchAtI(s, p, pat) ==
    /\ p >= 1
    /\ p + Len(pat) - 1 <= Len(s)
    /\ \A k \in 1..Len(pat) : LowerTok(s[p + k - 1]) = LowerTok(pat[k])

\* str.split(sep) for a non-empty separator str.
RECURSIVE Split(_, _)
Split(s, sep) ==
    LET at == {p \in 1..Len(s) : MatchAt(s, p, sep)}
    IN  IF at = {} THEN <<s>>
        ELSE LET p == SetMin(at)
             IN  <<SubSeq(s, 1, p - 1)>> \o
                 Split(SubSeq(s, p + Len(sep), Len(s)), sep)

\* s.split("\n")[0]
FirstLine(s) == Split(s, <<"\n">>)[1]

\* The index of the first "\n" at or after p, Len(s)+1 when there is none:
\* where a `.*` that starts at p stops.
LineEnd(s, p) ==
    LET nl == {q \in p..Len(s) : s[q] = "\n"}
    IN  IF nl = {} THEN Len(s) + 1 ELSE SetMin(nl)

(***************************************************************************)
(* The regular expressions of parse.py                                     *)
(***************************************************************************)

\* re.findall(r'<label>: (.*?)\n', text, re.IGNORECASE), from index `from` on:
\* the lazy group runs to the first newline after the label, and a label
\* that no newline follows matches nothing.
RECURSIVE FindAllLabelFrom(_, _, _)
FindAllLabelFrom(text, label, from) ==
    LET pat == label \o <<":", " ">>
        at  == {p \in from..Len(text) : MatchAtI(text, p, pat)}
    IN  IF at = {} THEN <<>>
        ELSE LET b == SetMin(at) + Len(pat)
                 q == LineEnd(text, b)
             IN  IF q > Len(text) THEN <<>>
                 ELSE <<SubSeq(text, b, q - 1)>> \o
                      FindAllLabelFrom(text, label, q + 1)

FindAllLabel(text, label) == FindAllLabelFrom(text, label, 1)

\* re.search(r'<label>: (.*?)\n', text, re.IGNORECASE): group(1) of the first
\* match, None when there is no match.
SearchLabel(text, label) ==
    LET all == FindAllLabel(text, label)
    IN  IF all = <<>> THEN None ELSE all[1]

\* re.search(r'<label>:\s*(.*)', text, re.IGNORECASE): the greedy \s* also
\* eats newlines, the group then runs to the end of its line.
SearchLabelRest(text, label) ==
    LET pat == label \o <<":">>
        at  == {p \in 1..Len(text) : MatchAtI(text, p, pat)}
    IN  IF at = {} THEN None
        ELSE LET b  == SetMin(at) + Len(pat)
                 ns == {q \in b..Len(text) : ~IsSpace(text[q])}
                 b2 == IF ns = {} THEN Len(text) + 1 ELSE SetMin(ns)
             IN  SubSeq(text, b2, LineEnd(text, b2) - 1)

\* re.findall(r'\[([^\]]+)\]', text): a "[" , one or more characters that are
\* not "]", and the "]" that ends them.
RECURSIVE FindAllBracketsFrom(_, _)
FindAllBracketsFrom(text, from) ==
    LET close(p) == {q \in (p + 1)..Len(text) : text[q] = "]"}
        at == {p \in from..Len(text) :
                  /\ text[p] = "["
                  /\ close(p) # {}
                  /\ SetMin(close(p)) > p + 1}
    IN  IF at = {} THEN <<>>
        ELSE LET p == SetMin(at)
                 q == SetMin(close(p))
             IN  <<SubSeq(text, p + 1, q - 1)>> \o FindAllBracketsFrom(text, q + 1)

\* re.findall(r'(?<=Value:\s)(.*)', text, re.IGNORECASE), from index `from`
\* on: at every place that follows "Value:" and one whitespace character the
\* group runs to the end of the line; it may be empty, and the search resumes
\* where a non-empty match ended, one character on after an empty one.
RECURSIVE FindAllValueFrom(_, _)
FindAllValueFrom(text, from) ==
    LET behind(p) == MatchAtI(text, p - 3, <<"Value", ":">>) /\ IsSpace(text[p - 1])
        at == {p \in from..(Len(text) + 1) : p >= 4 /\ behind(p)}
    IN  IF at = {} THEN <<>>
        ELSE LET p == SetMin(at)
                 e == LineEnd(text, p)
             IN  <<SubSeq(text, p, e - 1)>> \o
                 FindAllValueFrom(text, IF e > p THEN e ELSE p + 1)

\* re.search in the place of re.findall: the first match alone.
FindFirstValue(text) ==
    IF FindAllValueFrom(text, 1) = <<>> THEN <<>> ELSE <<FindAllValueFrom(text, 1)[1]>>

FindAllValue(text) == FindAllValueFrom(text, 1)

\* The dates \d{2}/\d{2}/\d{4} of the model's documents, each one token.
DateToks == {"01/02/2020", "12/31/2021"}

\* re.findall(r'Start:\s*(\d{2}/\d{2}/\d{4})|End:\s*(...)', text, re.IGNORECASE)
\* followed by next(...): the date of the first match of the given
\* alternative, None when it never matches.
FirstDate(text, label) ==
    LET ns(b) == {q \in b..Len(text) : ~IsSpace(text[q])}
        at == {p \in 1..Len(text) :
                  /\ MatchAtI(text, p, <<label, ":">>)
                  /\ ns(p + 2) # {}
                  /\ text[SetMin(ns(p + 2))] \in DateToks}
    IN  IF at = {} THEN None ELSE <<text[SetMin(ns(SetMin(at) + 2))]>>

\* re.search(r'Header:\s*(.*?)\s*\n+\s*Value:\s*(.*)', text, re.DOTALL):
\* <<>> when there is no match, else <<group(1).strip(), group(2).strip()>>.
\* The match starts at the first "Header:"; the lazy group(1) ends at the
\* first place that whitespace holding a newline and then "Value:" follow;
\* group(2) is the rest of the text.
HeaderValueMatch(text) ==
    LET n == Len(text)
        hs == {s \in 1..n : MatchAt(text, s, <<"Header", ":">>)}
        nonspace(e) == {q \in (e + 1)..n : ~IsSpace(text[q])}
        v(e) == IF nonspace(e) = {} THEN n + 1 ELSE SetMin(nonspace(e))
        succ(e) == /\ MatchAt(text, v(e), <<"Value", ":">>)
                   /\ \E q \in (e + 1)..(v(e) - 1) : text[q] = "\n"
    IN  IF hs = {} THEN <<>>
        ELSE LET s  == SetMin(hs)
                 a0 == v(s + 1)
                 E  == {e \in a0..n : succ(e)}
             IN  IF E # {}
                 THEN <<Strip(SubSeq(text, a0, SetMin(E))),
                        Strip(SubSeq(text, v(SetMin(E)) + 2, n))>>
                 ELSE IF succ(s + 1)
                      THEN <<<<>>, Strip(SubSeq(text, a0 + 2, n))>>
                      ELSE <<>>

(***************************************************************************)
(* parse.py: the field extractors                                          *)
(***************************************************************************)

\* The tokens of the model's documents that hold the characters 'media'.
MediaToks == {"media", "./media/", "media.png"}

\* parse_media_url(vals)
parse_media_url(vals) ==
    IF \E i \in 1..Len(vals) : vals[i] \in MediaToks
    THEN LET at == {p \in 1..(Len(vals) - 1) :
                       vals[p] = "./media/" /\ ~IsSpace(vals[p + 1])}
         IN  IF at # {}
             THEN LET p  == SetMin(at)
                      sp == {q \in (p + 1)..Len(vals) : IsSpace(vals[q])}
                      e  == IF sp = {} THEN Len(vals) ELSE SetMin(sp) - 1
                  IN  SubSeq(vals, p, e)
             ELSE LET parts == Split(vals, <<":", " ">>)
                  IN  <<"./media/">> \o parts[Len(parts)]
    ELSE vals

\* One {name: value} entry of the extractors' output lists.
Entry(name, m) == name :> (IF m # None THEN m ELSE Sentinel)

\* parse_media_alt_text(all_text)
parse_media_alt_text(all_text) ==
    << Entry("main_fig_alt_text", SearchLabel(all_text, <<"Image text (alt)">>)),
       Entry("main_fig_author_name", SearchLabel(all_text, <<"Author name">>)),
       Entry("main_fig_author_URL", SearchLabelRest(all_text, <<"Author URL">>)) >>

\* parse_tag_information(all_text)
parse_tag_information(all_text) ==
    << Entry("topic", SearchLabel(all_text, <<"Topic">>)),
       Entry("subtopic", SearchLabel(all_text, <<"Sub", "topic">>)),
       Entry("source", SearchLabel(all_text, <<"Source">>)),
       Entry("product_type", SearchLabelRest(all_text, <<"Product Type">>)) >>

\* The items of one bracket group: split on commas, each item stripped of
\* " '\n", empty items removed.
RECURSIVE NonEmpty(_)
NonEmpty(items) ==
    IF items = <<>> THEN <<>>
    ELSE (IF Head(items) = <<>> THEN <<>> ELSE <<Head(items)>>) \o NonEmpty(Tail(items))

ColorGroup(match) ==
    LET parts == Split(match, <<",">>)
    IN  NonEmpty([k \in 1..Len(parts) |-> StripChars(parts[k], {" ", "'", "\n"})])

\* out_names of parse_layer_information, in its order.
out_names ==
    << "layer_name", "stacCol", "layer_id", "layer_description", "units",
       "color_ramp_description", "color_stops", "data_format", "projection",
       "legend_minimum", "legend_maximum", "legend_type", "colormap_name",
       "resampling", "rescale_min", "rescale_max" >>

\* The label each name is searched under.
LayerLabel(name) ==
    CASE name = "layer_name" -> <<"Layer name">>
      [] name = "stacCol" -> <<"stacCol">>
      [] name = "layer_id" -> <<"Layer id">>
      [] name = "layer_description" -> <<"Layer description">>
      [] name = "units" -> <<"Units">>
      [] name = "color_ramp_description" -> <<"Color ramp description">>
      [] name = "data_format" -> <<"Data format">>
      [] name = "projection" -> <<"Projection">>
      [] name = "legend_minimum" -> <<"Legend minimum">>
      [] name = "legend_maximum" -> <<"Legend maximum">>
      [] name = "legend_type" -> <<"Legend type">>
      [] name = "colormap_name" -> <<"Colormap name">>
      [] name = "resampling" -> <<"Resampling">>
      [] name = "rescale_min" -> <<"Rescale minimum">>
      [] name = "rescale_max" -> <<"Rescale maximum">>

\* out_data of parse_layer_information: the list found for one name.
out_data(all_text, name) ==
    IF name = "color_stops"
    THEN LET groups == FindAllBracketsFrom(all_text, 1)
         IN  [k \in 1..Len(groups) |-> ColorGroup(groups[k])]
    ELSE FindAllLabel(all_text, LayerLabel(name))

\* The key f'{name}{i}' of a layer's dict.
Key(name, i) == <<name, i>>

\* parse_layer_information(all_text): one dict per "Layer name:" found; the
\* i-th dict takes the i-th element of every list that has one.
parse_layer_information(all_text) ==
    LET num_layers == Len(out_data(all_text, "layer_name"))
        names == {out_names[k] : k \in 1..Len(out_names)}
        layer_data(i) ==
            LET have == {nm \in names : i < Len(out_data(all_text, nm))}
            IN  [key \in {Key(nm, i) : nm \in have} |->
                    out_data(all_text, key[1])[i + 1]]
    IN  [k \in 1..num_layers |-> layer_data(k - 1)]

\* check_value_string_length(vals)
check_value_string_length(vals) == IF Len(vals) >= 1 THEN vals ELSE Sentinel

(***************************************************************************)
(* parse.py: the table interpreter                                         *)
(***************************************************************************)

\* row.cells[k].text of a row, a record with the list of its cells.
CellText(row, k) == row.cells[k + 1]

\* extracted_data[header].append(item), the list created when it is missing.
AppendTo(d, header, item) == Put(d, header, Append(Get(d, header, <<>>), item))

\* extracted_data[header].append(item) for each item of a list.
RECURSIVE AppendAll(_, _, _)
AppendAll(d, header, items) ==
    IF items = <<>> THEN d
    ELSE AppendAll(AppendTo(d, header, Head(items)), header, Tail(items))

\* table_0_info(row, header, extracted_data)
table_0_info(row, header, extracted_data) ==
    LET text == Strip(CellText(row, 1))
    IN  CASE header = <<"media">> ->
               LET all_text == parse_media_alt_text(text)
                   vals == parse_media_url(FirstLine(text))
                   made == Put(extracted_data, header, Get(extracted_data, header, <<>>))
               IN  AppendAll(made, header,
                       <<"main_media_image" :> check_value_string_length(vals)>>
                       \o all_text)
          [] header = <<"tags">> ->
               AppendAll(Put(extracted_data, header, Get(extracted_data, header, <<>>)),
                         header, parse_tag_information(text))
          [] header = <<"layers">> ->
               LET all_text == parse_layer_information(text)
               IN  AppendAll(extracted_data, header,
                       [k \in 1..Len(all_text) |-> (<<"Layer", k - 1>> :> all_text[k])])
          [] OTHER ->
               Put(extracted_data, header, check_value_string_length(FirstLine(text)))

\* SourceValues that stops at the first tags source.  The fault that property
\* C5 has to tell from the code.
SourceValuesFirst(table_0) ==
    LET tags == Get(table_0, <<"tags">>, <<>>)
        at == {k \in 1..Len(tags) : "source" \in DOMAIN tags[k]}
    IN  IF at = {} THEN <<>> ELSE <<tags[SetMin(at)]["source"]>>

\* The `source` values of table 0's tags (parse.py line 243).
SourceValues(table_0) ==
    LET tags == Get(table_0, <<"tags">>, <<>>)
        RECURSIVE pick(_)
        pick(k) == IF k > Len(tags) THEN <<>>
                   ELSE (IF "source" \in DOMAIN tags[k]
                         THEN <<tags[k]["source"]>> ELSE <<>>) \o pick(k + 1)
    IN  pick(1)

\* parse_table_value_content(row, header, table_0, table_1)
parse_table_value_content(row, header, table_0, table_1) ==
    LET all_text == check_value_string_length(Strip(CellText(row, 1)))
    IN  CASE header = <<"content_source">> ->
               LET extracted_values == FindAllValue(all_text)
               IN  IF extracted_values # <<>> /\ Lower(extracted_values[1]) = <<"null">>
                   THEN LET source_values == SourceValues(table_0)
                        IN  Put(table_1, header,
                                IF source_values # <<>> THEN source_values
                                ELSE <<Sentinel>>)
                   ELSE Put(table_1, header,
                            IF extracted_values # <<>> THEN extracted_values
                            ELSE <<Sentinel>>)
          [] header = <<"temporal_extent">> ->
               LET start_value == FirstDate(all_text, "Start")
                   end_value == FirstDate(all_text, "End")
               IN  Put(Put(table_1, <<"start_temporal_extent">>,
                           IF start_value # None THEN start_value ELSE Sentinel),
                       <<"end_temporal_extent">>,
                       IF end_value # None THEN end_value ELSE Sentinel)
          [] header = <<"legend_value_range">> -> table_1
          [] OTHER ->
               LET match_value_names == FindAllValue(all_text)
               IN  Put(table_1, header,
                       IF match_value_names # <<>> THEN match_value_names
                       ELSE <<Sentinel>>)

\* table_2 is iterated with .items(), so its dict keeps the insertion order:
\* a list of <<key, value>> pairs.  d[k] = v replaces the value of a key in
\* place and appends a new key.
OPut(od, k, v) ==
    LET at == {j \in 1..Len(od) : od[j][1] = k}
    IN  IF at = {} THEN Append(od, <<k, v>>)
        ELSE [od EXCEPT ![SetMin(at)] = <<k, v>>]

\* parse_additional_table_info without the test of line 285: a pair with an
\* empty header or an empty value is stored too.
parse_additional_table_info_unchecked(row, header, table_2) ==
    LET all_text == check_value_string_length(Strip(CellText(row, 1)))
        match == HeaderValueMatch(all_text)
    IN  IF match # <<>>
        THEN OPut(table_2, header, <<match[1] :> match[2]>>)
        ELSE table_2

\* parse_additional_table_info(row, header, table_2)
parse_additional_table_info(row, header, table_2) ==
    LET all_text == check_value_string_length(Strip(CellText(row, 1)))
        match == HeaderValueMatch(all_text)
    IN  IF match # <<>> /\ Len(match[1]) # 0 /\ Len(match[2]) # 0
        THEN OPut(table_2, header, <<match[1] :> match[2]>>)
        ELSE table_2

\* RowHeader without the strip().  The fault that property C8 has to tell
\* from the code.
RowHeaderUnstripped(row) == FirstLine(Lower(CellText(row, 0)))

\* The header of a row (parse.py line 303).
RowHeader(row) == FirstLine(Lower(Strip(CellText(row, 0))))

(***************************************************************************)
(* verify.py                                                               *)
(***************************************************************************)

\* valid_colors of check_if_colormap_is_valid, its strs (the list also ends
\* with None, which no str equals).
valid_colors ==
    { "accent", "accent_r", "afmhot", "afmhot_r", "autumn", "autumn_r",
      "binary", "binary_r", "blues", "blues_r", "bone", "bone_r", "brbg",
      "brbg_r", "brg", "brg_r", "bugn", "bugn_r", "bupu", "bupu_r", "bwr",
      "bwr_r", "cfastie", "cividis", "cividis_r", "cmrmap", "cmrmap_r",
      "cool", "cool_r", "coolwarm", "coolwarm_r", "copper", "copper_r",
      "cubehelix", "cubehelix_r", "dark2", "dark2_r", "flag", "flag_r",
      "gist_earth", "gist_earth_r", "gist_gray", "gist_gray_r", "gist_heat",
      "gist_heat_r", "gist_ncar", "gist_ncar_r", "gist_rainbow",
      "gist_rainbow_r", "gist_stern", "gist_stern_r", "gist_yarg",
      "gist_yarg_r", "gnbu", "gnbu_r", "gnuplot", "gnuplot2", "gnuplot2_r",
      "gnuplot_r", "gray", "gray_r", "greens", "greens_r", "greys",
      "greys_r", "hot", "hot_r", "hsv", "hsv_r", "inferno", "inferno_r",
      "jet", "jet_r", "magma", "magma_r", "nipy_spectral", "nipy_spectral_r",
      "ocean", "ocean_r", "oranges", "oranges_r", "orrd", "orrd_r", "paired",
      "paired_r", "pastel1", "pastel1_r", "pastel2", "pastel2_r", "pink",
      "pink_r", "piyg", "piyg_r", "plasma", "plasma_r", "prgn", "prgn_r",
      "prism", "prism_r", "pubu", "pubu_r", "pubugn", "pubugn_r", "puor",
      "puor_r", "purd", "purd_r", "purples", "purples_r", "rainbow",
      "rainbow_r", "rdbu", "rdbu_r", "rdgy", "rdgy_r", "rdpu", "rdpu_r",
      "rdylbu", "rdylbu_r", "rdylgn", "rdylgn_r", "reds", "reds_r",
      "rplumbo", "schwarzwald", "seismic", "seismic_r", "set1", "set1_r",
      "set2", "set2_r", "set3", "set3_r", "spectral", "spectral_r", "spring",
      "spring_r", "summer", "summer_r", "tab10", "tab10_r", "tab20",
      "tab20_r", "tab20b", "tab20b_r", "tab20c", "tab20c_r", "terrain",
      "terrain_r", "twilight", "twilight_r", "twilight_shifted",
      "twilight_shifted_r", "viridis", "viridis_r", "winter", "winter_r",
      "wistia", "wistia_r", "ylgn", "ylgn_r", "ylgnbu", "ylgnbu_r", "ylorbr",
      "ylorbr_r", "ylorrd", "ylorrd_r" }

\* valid_projection of check_if_projection_is_valid.
valid_projection ==
    { "albers", "equalEarth", "equirectangular", "lambertConformalConic",
      "mercator", "naturalEarth", "winkelTripel", "globe", "polarNorth",
      "polarSouth" }

\* A raised exception: its class, what the message names, and for the
\* enumeration checks the offending value and the valid list.
Raised(cls, what, value, valid) ==
    [exc |-> cls, what |-> what, value |-> value, valid |-> valid]

NoError == [exc |-> "none", what |-> "", value |-> <<>>, valid |-> {}]

\* check_if_colormap_is_valid that compares in lower case.  The fault that
\* property C6 has to tell from the code.
check_colormap_any_case(colormap) ==
    IF ~(Len(colormap) = 1 /\ LowerTok(colormap[1]) \in valid_colors)
    THEN Raised("ValueError", "Invalid colormap", colormap, valid_colors)
    ELSE NoError

\* check_if_colormap_is_valid(colormap): NoError when it returns colormap.
check_if_colormap_is_valid(colormap) ==
    IF ~(Len(colormap) = 1 /\ colormap[1] \in valid_colors)
    THEN Raised("ValueError", "Invalid colormap", colormap, valid_colors)
    ELSE NoError

\* check_if_projection_is_valid(projection)
check_if_projection_is_valid(projection) ==
    IF ~(Len(projection) = 1 /\ projection[1] \in valid_projection)
    THEN Raised("ValueError", "Invalid projection", projection, valid_projection)
    ELSE NoError

(***************************************************************************)
(* utils.py: color_converter                                               *)
(***************************************************************************)

\* The values color_converter takes and gives: a str, a tuple of ints, or
\* the ValueError it raises.
PyStr(s) == [kind |-> "str", s |-> s, t |-> <<>>]

PyTuple(t) == [kind |-> "tuple", s |-> <<>>, t |-> t]

ValueError == [kind |-> "ValueError", s |-> <<>>, t |-> <<>>]

Digits == <<"0", "1", "2", "3", "4", "5", "6", "7", "8", "9">>

HexDigits == Digits \o <<"A", "B", "C", "D", "E", "F">>

IsDigit(c) == \E k \in 1..10 : Digits[k] = c

IsHexDigit(c) == \E k \in 1..16 : HexDigits[k] = c

\* int(c, 16) of one hexadecimal digit (upper case).
HexVal(c) == (CHOOSE k \in 1..16 : HexDigits[k] = c) - 1

\* int(s) of a str of decimal digits.
RECURSIVE DecVal(_)
DecVal(s) ==
    IF s = <<>> THEN 0
    ELSE 10 * DecVal(SubSeq(s, 1, Len(s) - 1)) + HexVal(s[Len(s)])

\* str(n) of an int.
RECURSIVE DecStr(_)
DecStr(n) ==
    IF n < 0 THEN <<"-">> \o DecStr(-n)
    ELSE IF n < 10 THEN <<Digits[n + 1]>>
    ELSE DecStr(n \div 10) \o <<Digits[(n % 10) + 1]>>

\* f"{n:X}" and f"{n:02X}" of an int n >= 0.
RECURSIVE HexStr(_)
HexStr(n) ==
    IF n < 16 THEN <<HexDigits[n + 1]>>
    ELSE HexStr(n \div 16) \o <<HexDigits[(n % 16) + 1]>>

Hex02X(n) == IF n < 16 THEN <<"0">> \o HexStr(n) ELSE HexStr(n)

\* f"#{t[0]:02X}{t[1]:02X}{t[2]:02X}"
HexOfTuple(t) == <<"#">> \o Hex02X(t[1]) \o Hex02X(t[2]) \o Hex02X(t[3])

\* str(color): a str is itself, a tuple prints as "(a, b, c)".
RECURSIVE JoinInts(_, _)
JoinInts(t, sep) ==
    IF t = <<>> THEN <<>>
    ELSE IF Len(t) = 1 THEN DecStr(t[1])
    ELSE DecStr(t[1]) \o sep \o JoinInts(Tail(t), sep)

StrOf(color) ==
    IF color.kind = "str" THEN color.s
    ELSE IF Len(color.t) = 1 THEN <<"(">> \o DecStr(color.t[1]) \o <<",", ")">>
    ELSE <<"(">> \o JoinInts(color.t, <<",", " ">>) \o <<")">>

\* The length of the run of decimal digits of s that starts at p.
DigitRun(s, p) ==
    LET stop == {q \in p..Len(s) : ~IsDigit(s[q])}
    IN  (IF stop = {} THEN Len(s) + 1 ELSE SetMin(stop)) - p

\* The first index at or after p that holds no whitespace.
SkipSpace(s, p) ==
    LET ns == {q \in p..Len(s) : ~IsSpace(s[q])}
    IN  IF ns = {} THEN Len(s) + 1 ELSE SetMin(ns)

\* re.match(r"rgb\((\d{1,3}),\s*(\d{1,3}),\s*(\d{1,3})\)", s) from the
\* group that starts at p, a run of l digits, the groups before it in acc:
\* the three groups as ints, <<>> when there is no match.
RECURSIVE RgbFrom(_, _, _)

RgbGroup(s, p, l, acc) ==
    IF l \notin 1..3 THEN <<>>
    ELSE IF Len(acc) = 2
    THEN IF MatchAt(s, p + l, <<")">>)
         THEN Append(acc, DecVal(SubSeq(s, p, p + l - 1))) ELSE <<>>
    ELSE IF MatchAt(s, p + l, <<",">>)
    THEN RgbFrom(s, SkipSpace(s, p + l + 1), Append(acc, DecVal(SubSeq(s, p, p + l - 1))))
    ELSE <<>>

RgbFrom(s, p, acc) == RgbGroup(s, p, DigitRun(s, p), acc)

RgbMatch(s) ==
    IF MatchAt(s, 1, <<"r", "g", "b", "(">>) THEN RgbFrom(s, 5, <<>>) ELSE <<>>

\* str.lstrip("#")
LStripHash(s) ==
    LET keep == {i \in 1..Len(s) : s[i] # "#"}
    IN  IF keep = {} THEN <<>> ELSE SubSeq(s, SetMin(keep), Len(s))

\* color_converter from line 41 on: color_str went through the rgb(...)
\* pattern (rgb_match) and through lstrip("#").upper() (hex_color_str).
FromString(rgb_match, hex_color_str, hex_or_rgb) ==
    IF rgb_match # <<>>
    THEN IF hex_or_rgb = "rgb" THEN PyTuple(rgb_match)
         ELSE PyStr(HexOfTuple(rgb_match))
    ELSE IF /\ Len(hex_color_str) = 6
            /\ \A k \in 1..6 : IsHexDigit(hex_color_str[k])
    THEN IF hex_or_rgb = "hex" THEN PyStr(<<"#">> \o hex_color_str)
         ELSE PyTuple([k \in 1..3 |->
                 16 * HexVal(hex_color_str[2 * k - 1]) + HexVal(hex_color_str[2 * k])])
    ELSE ValueError

\* color_converter(color, hex_or_rgb)
color_converter(color, hex_or_rgb) ==
    IF /\ color.kind = "tuple"
       /\ Len(color.t) = 3
       /\ \A k \in 1..3 : 0 <= color.t[k] /\ color.t[k] <= 255
    THEN IF hex_or_rgb = "rgb" THEN color ELSE PyStr(HexOfTuple(color.t))
    ELSE FromString(RgbMatch(StrOf(color)), Upper(LStripHash(StrOf(color))), hex_or_rgb)

(***************************************************************************)
(* parse.py: extract_headers_and_paragraphs                                *)
(***************************************************************************)

\* The style names that start with 'Heading'.
HeadingStyles == {"Heading 1", "Heading 2"}

\* "\n".join(lines)
RECURSIVE JoinLines(_)
JoinLines(lines) ==
    IF lines = <<>> THEN <<>>
    ELSE IF Len(lines) = 1 THEN lines[1]
    ELSE lines[1] \o <<"\n">> \o JoinLines(Tail(lines))

\* para.style.name.startswith('Heading') or any(run.bold for run in para.runs)
is_header(para) ==
    para.style \in HeadingStyles \/ \E k \in 1..Len(para.runs) : para.runs[k]

\* ProseLoop whose flush at the end of the document does not ask for
\* accumulated content: the last header gets its entry like the others.
RECURSIVE ProseLoopFlushAll(_, _, _, _, _)
ProseLoopFlushAll(paras, k, output, current_header, current_content) ==
    IF k > Len(paras)
    THEN IF Truthy(current_header)
         THEN Put(output, current_header, Strip(JoinLines(current_content)))
         ELSE output
    ELSE IF is_header(paras[k])
    THEN IF Truthy(current_header)
         THEN ProseLoopFlushAll(paras, k + 1,
                        Put(output, current_header, Strip(JoinLines(current_content))),
                        Strip(paras[k].text), <<>>)
         ELSE ProseLoopFlushAll(paras, k + 1, output, Strip(paras[k].text), current_content)
    ELSE IF Truthy(current_header)
    THEN ProseLoopFlushAll(paras, k + 1, output, current_header,
                   Append(current_content, Strip(paras[k].text)))
    ELSE ProseLoopFlushAll(paras, k + 1, output, current_header, current_content)

\* The loop of extract_headers_and_paragraphs from paragraph k on, with its
\* three locals.
RECURSIVE ProseLoop(_, _, _, _, _)
ProseLoop(paras, k, output, current_header, current_content) ==
    IF k > Len(paras)
    THEN IF Truthy(current_header) /\ current_content # <<>>
         THEN Put(output, current_header, Strip(JoinLines(current_content)))
         ELSE output
    ELSE IF is_header(paras[k])
    THEN IF Truthy(current_header)
         THEN ProseLoop(paras, k + 1,
                        Put(output, current_header, Strip(JoinLines(current_content))),
                        Strip(paras[k].text), <<>>)
         ELSE ProseLoop(paras, k + 1, output, Strip(paras[k].text), current_content)
    ELSE IF Truthy(current_header)
    THEN ProseLoop(paras, k + 1, output, current_header,
                   Append(current_content, Strip(paras[k].text)))
    ELSE ProseLoop(paras, k + 1, output, current_header, current_content)

\* extract_headers_and_paragraphs(doc)
extract_headers_and_paragraphs(d) == ProseLoop(d.paragraphs, 1, <<>>, None, <<>>)

(***************************************************************************)
(* prose.py: the record assembler                                          *)
(***************************************************************************)

\* The placeholder list ["data not provided", "none", "null", ""].
Placeholders == {<<"data not provided">>, <<"none">>, <<"null">>, <<>>}

\* `val and str(val).strip().lower() not in [placeholders]`
HasValue(val) == Truthy(val) /\ Lower(Strip(val)) \notin Placeholders

\* float(s) of a str: the model's numerals are decimal integers with an
\* optional sign; <<n>> is the float, <<>> stands for the ValueError.
PyFloat(s) ==
    LET body == IF s # <<>> /\ s[1] \in {"-", "+"} THEN Tail(s) ELSE s
    IN  IF body # <<>> /\ DigitRun(body, 1) = Len(body)
        THEN <<(IF s[1] = "-" THEN -1 ELSE 1) * DecVal(body)>>
        ELSE <<>>

\* safe_float with 0 for what is no number.
safe_float_zero(value_str) ==
    IF value_str # None /\ Lower(Strip(value_str)) \notin Placeholders
       /\ PyFloat(Strip(value_str)) # <<>>
    THEN PyFloat(Strip(value_str))
    ELSE <<0>>

\* safe_float(value_str) of a str or None: <<n>> for the float n, <<>> for None.
safe_float(value_str) ==
    IF value_str # None /\ Lower(Strip(value_str)) \notin Placeholders
    THEN PyFloat(Strip(value_str))
    ELSE <<>>

\* _build_media_block(media_data_list)
RECURSIVE MediaLoop(_, _, _)
MediaLoop(items, k, acc) ==
    IF k > Len(items) THEN acc
    ELSE LET item == items[k]
             has(key) == Truthy(Get(item, key, None))
             a1 == IF has("main_media_image")
                   THEN [acc EXCEPT !.src = <<"::file", " ">> \o item["main_media_image"]]
                   ELSE acc
             a2 == IF has("main_fig_alt_text")
                   THEN [a1 EXCEPT !.alt = item["main_fig_alt_text"]] ELSE a1
             a3 == IF has("main_fig_author_name")
                   THEN [a2 EXCEPT !.author.name = item["main_fig_author_name"]] ELSE a2
             a4 == IF has("main_fig_author_URL")
                   THEN [a3 EXCEPT !.author.url = item["main_fig_author_URL"]] ELSE a3
         IN  MediaLoop(items, k + 1, a4)

build_media_block(media_data_list) ==
    MediaLoop(media_data_list, 1,
        [src |-> None, alt |-> Sentinel,
         author |-> [name |-> Sentinel, url |-> Sentinel]])

\* The comma-split tokens of a value, trimmed, the empty ones kept.
CommaListKept(s) ==
    LET parts == Split(s, <<",">>)
    IN  [k \in 1..Len(parts) |-> Strip(parts[k])]

\* [t.strip() for t in s.split(",") if t.strip()]
CommaList(s) ==
    LET parts == Split(s, <<",">>)
    IN  NonEmpty([k \in 1..Len(parts) |-> Strip(parts[k])])

\* _build_taxonomy_block(tags_data_list)
RECURSIVE TaxonomyLoop(_, _, _)
TaxonomyLoop(items, k, acc) ==
    IF k > Len(items) THEN acc
    ELSE LET item == items[k]
             has(key) == Truthy(Get(item, key, None))
             a1 == IF has("topic")
                   THEN [acc EXCEPT !.topics = CommaList(item["topic"])] ELSE acc
             a2 == IF has("subtopic")
                   THEN [a1 EXCEPT !.subtopics = CommaList(item["subtopic"])] ELSE a1
             a3 == IF has("source")
                   THEN [a2 EXCEPT !.source = item["source"]] ELSE a2
         IN  TaxonomyLoop(items, k + 1, a3)

build_taxonomy_block(tags_data_list) ==
    LET acc == TaxonomyLoop(tags_data_list, 1,
                   [topics |-> <<>>, subtopics |-> <<>>, source |-> Sentinel])
    IN  << [name |-> "Topics",
            values |-> IF acc.topics # <<>> THEN acc.topics ELSE <<Sentinel>>],
           [name |-> "Subtopics",
            values |-> IF acc.subtopics # <<>> THEN acc.subtopics ELSE <<Sentinel>>],
           [name |-> "Source", values |-> <<acc.source>>] >>

\* json.loads(f'"{s}"') of a one-line str: [ok, val].  A double quote ends
\* the JSON string early and a tab is a control character: both raise
\* JSONDecodeError, a ValueError.  A backslash escapes a following double
\* quote, backslash or slash; before anything else of the model's documents
\* (a space, a digit, the end) it raises.
RECURSIVE JsonString(_)
JsonString(s) ==
    IF s = <<>> THEN [ok |-> TRUE, val |-> <<>>]
    ELSE IF s[1] \in {"\"", "\t"} THEN [ok |-> FALSE, val |-> <<>>]
    ELSE IF s[1] = "\\"
    THEN IF Len(s) >= 2 /\ s[2] \in {"\"", "\\", "/"}
         THEN LET rest == JsonString(SubSeq(s, 3, Len(s)))
              IN  [ok |-> rest.ok, val |-> <<s[2]>> \o rest.val]
         ELSE [ok |-> FALSE, val |-> <<>>]
    ELSE LET rest == JsonString(Tail(s))
         IN  [ok |-> rest.ok, val |-> <<s[1]>> \o rest.val]

\* table_1.get(key, [default])[0]
First(table_1, key, default) == Get(table_1, key, <<default>>)[1]

\* The infoDescription text of construct_non_prose_section.
infoDescription(table_1) ==
    <<"::markdown", "\n">>
    \o <<"- Temporal Extent", ":", " ">>
    \o Get(table_1, <<"start_temporal_extent">>, <<"N/A">>) \o <<" ", "-", " ">>
    \o Get(table_1, <<"end_temporal_extent">>, <<"N/A">>) \o <<"\n">>
    \o <<"- Temporal Resolution", ":", " ">>
    \o First(table_1, <<"temporal_resolution">>, <<"N/A">>) \o <<"\n">>
    \o <<"- Spatial Extent", ":", " ">>
    \o First(table_1, <<"spatial_extent">>, <<"N/A">>) \o <<"\n">>
    \o <<"- Spatial Resolution", ":", " ">>
    \o First(table_1, <<"spatial_resolution">>, <<"N/A">>) \o <<"\n">>
    \o <<"- Data Units", ":", " ">>
    \o First(table_1, <<"data_units">>, <<"N/A">>) \o <<"\n">>
    \o <<"- Data Type", ":", " ">>
    \o First(table_1, <<"data_type">>, <<"N/A">>) \o <<"\n">>
    \o <<"- Data Latency", ":", " ">>
    \o First(table_1, <<"data_latency">>, <<"N/A">>)

\* The output dict of construct_non_prose_section before its layers loop
\* (prose.py lines 156-176): [ok, output]; ok is FALSE when json.loads raises.
OutputHead(table_0, table_1) ==
    LET description == JsonString(Get(table_0, <<"description">>, <<>>))
    IN  [ok |-> description.ok,
         output |->
            [id |-> Get(table_0, <<"id">>, None),
             name |-> Get(table_0, <<"name">>, None),
             description |-> description.val,
             media |-> build_media_block(Get(table_0, <<"media">>, <<>>)),
             taxonomy |-> build_taxonomy_block(Get(table_0, <<"tags">>, <<>>)),
             infoDescription |-> infoDescription(table_1),
             layers |-> <<>>]]

\* MAP_LABEL_JS_CODE, one token.
MAP_LABEL_JS_CODE == <<"::js ({ dateFns, datetime, compareDatetime }) => {...}">>

\* StopOut that keeps a stop color_converter rejected, as the token
\* "invalid".  The fault that property C7 has to tell from the code.
StopOutKept(conv, mode) ==
    IF conv.kind = "ValueError" THEN << <<"invalid">> >>
    ELSE IF mode = "rgb"
    THEN << <<"r", "g", "b", "(">> \o JoinInts(conv.t, <<",">>) \o <<")">> >>
    ELSE <<conv.s>>

\* What one converted stop adds to processed_stops (prose.py lines 255-262):
\* nothing when color_converter raised (the warning of line 262), the
\* "rgb(r,g,b)" string or the hex string otherwise.
StopOut(conv, mode) ==
    IF conv.kind = "ValueError" THEN <<>>
    ELSE IF mode = "rgb"
    THEN << <<"r", "g", "b", "(">> \o JoinInts(conv.t, <<",">>) \o <<")">> >>
    ELSE <<conv.s>>

\* The stops written as tuples whatever the mode is.
RECURSIVE processed_stops_rgb(_, _)
processed_stops_rgb(color_stops_data, hex_or_rgb) ==
    IF color_stops_data = <<>> THEN <<>>
    ELSE IF ~HasValue(Head(color_stops_data))
    THEN processed_stops_rgb(Tail(color_stops_data), hex_or_rgb)
    ELSE StopOut(color_converter(PyStr(Head(color_stops_data)), "rgb"), "rgb")
         \o processed_stops_rgb(Tail(color_stops_data), hex_or_rgb)

\* The stops of one layer (prose.py lines 249-264): placeholders are skipped,
\* a stop color_converter rejects is skipped with a warning, the others are
\* converted to the requested form.
RECURSIVE processed_stops(_, _)
processed_stops(color_stops_data, hex_or_rgb) ==
    IF color_stops_data = <<>> THEN <<>>
    ELSE LET stop_color == Head(color_stops_data)
             rest == processed_stops(Tail(color_stops_data), hex_or_rgb)
             mode == IF hex_or_rgb = "rgb" THEN "rgb" ELSE "hex"
         IN  IF ~HasValue(stop_color) THEN rest
             ELSE StopOut(color_converter(PyStr(stop_color), mode), mode) \o rest

\* A dict with one key when `cond` holds, the empty dict otherwise.
If(cond, key, val) == IF cond THEN key :> val ELSE <<>>

\* `target[key] = d` without the test: an empty dict or list is set too.
IfNonEmptyAlways(key, d) == key :> d

\* `if d: target[key] = d` of a dict or list d.
IfNonEmpty(key, d) == IF d # <<>> THEN key :> d ELSE <<>>

\* `if cond and f is not None: target[key] = f` of an optional float f.
IfFloat(cond, key, f) == IF cond /\ f # <<>> THEN key :> f[1] ELSE <<>>

\* `if a is not None and b is not None: target[key] = [a, b]`
IfBoth(key, a, b) == IF a # <<>> /\ b # <<>> THEN key :> (a \o b) ELSE <<>>

\* `if has_value(val): target[key] = str(val).strip()`
IfHasValue(key, val) == IF HasValue(val) THEN key :> Strip(val) ELSE <<>>

\* `a if a else b`
Or(a, b) == IF Truthy(a) THEN a ELSE b

\* sourceParams of one layer (prose.py lines 213-227).
source_params(actual_layer_data, i) ==
    LET rescale_min_val == safe_float(Get(actual_layer_data, Key("rescale_min", i), None))
        rescale_max_val == safe_float(Get(actual_layer_data, Key("rescale_max", i), None))
        colormap_val == Get(actual_layer_data, Key("colormap_name", i), None)
        resampling_val == Get(actual_layer_data, Key("resampling", i), None)
    IN  IfHasValue("colormap_name", colormap_val)
        @@ IfHasValue("resampling", resampling_val)
        @@ IfBoth("rescale", rescale_min_val, rescale_max_val)

\* IsGradient without the comparison with 'gradient': every legend type
\* lets min and max through.  The fault that property C3 has to tell from
\* the code.
AnyLegendType(legend_type) == HasValue(legend_type)

\* `legend_type_val and str(legend_type_val).strip() == "gradient"`
IsGradient(legend_type) == HasValue(legend_type) /\ Strip(legend_type) = <<"gradient">>

\* legend_dict of one layer (prose.py lines 229-264).
legend_dict(actual_layer_data, i, hex_or_rgb) ==
    LET legend_units == Get(actual_layer_data, Key("units", i), None)
        legend_type == Get(actual_layer_data, Key("legend_type", i), None)
        legend_min_val == safe_float(Get(actual_layer_data, Key("legend_minimum", i), None))
        legend_max_val == safe_float(Get(actual_layer_data, Key("legend_maximum", i), None))
        color_stops_data == Get(actual_layer_data, Key("color_stops", i), <<>>)
    IN  If(HasValue(legend_units), "unit", "label" :> Strip(legend_units))
        @@ IfHasValue("type", legend_type)
        @@ IfFloat(IsGradient(legend_type), "min", legend_min_val)
        @@ IfFloat(IsGradient(legend_type), "max", legend_max_val)
        @@ IfNonEmpty("stops", processed_stops(color_stops_data, hex_or_rgb))

\* get_str_val_or_none(key_name)
get_str_val_or_none(actual_layer_data, i, key_name) ==
    LET val == Get(actual_layer_data, Key(key_name, i), None)
    IN  IF HasValue(val) THEN Strip(val) ELSE None

\* The first exception raised of the two checks, the colormap's before the
\* projection's (prose.py lines 219-220 and 269-270).
FirstError(colormap_error, projection_error) ==
    IF colormap_error # NoError THEN colormap_error ELSE projection_error

\* `if has_value(val): check(str(val).strip())`
Checked(val, err) == IF HasValue(val) THEN err ELSE NoError

\* PassEnd without the test of line 337: every layer is appended.  The
\* fault that property C1 has to tell from the code.
PassEndUngated(err, layer_to_append_cleaned) ==
    IF err # NoError
    THEN [skip |-> FALSE, error |-> err, append |-> FALSE, layer |-> <<>>]
    ELSE [skip |-> FALSE, error |-> NoError, append |-> TRUE,
          layer |-> layer_to_append_cleaned]

\* The end of one pass (prose.py lines 337-338): an exception of the checks
\* ended it before; otherwise the layer is appended if it has an id.
PassEnd(err, layer_to_append_cleaned) ==
    IF err # NoError
    THEN [skip |-> FALSE, error |-> err, append |-> FALSE, layer |-> <<>>]
    ELSE [skip |-> FALSE, error |-> NoError,
          append |-> Truthy(Get(layer_to_append_cleaned, "id", None)),
          layer |-> layer_to_append_cleaned]

\* One pass of the layers loop of construct_non_prose_section (prose.py lines
\* 188-338) for index i: [skip, error, append, layer].  skip: the `continue`
\* of line 191; error: what verify raises (the colormap is checked before the
\* projection); append: the test of line 337; layer: layer_to_append_cleaned.
LayerPass(table_0, table_1, i, layer_container_dict, hex_or_rgb) ==
    LET actual_layer_data == Get(layer_container_dict, <<"Layer", i>>, <<>>)
        colormap_val == Get(actual_layer_data, Key("colormap_name", i), None)
        projection_id_val == Get(actual_layer_data, Key("projection", i), None)
        colormap_error == Checked(colormap_val, check_if_colormap_is_valid(Strip(colormap_val)))
        projection_error ==
            Checked(projection_id_val, check_if_projection_is_valid(Strip(projection_id_val)))
        layer_id == get_str_val_or_none(actual_layer_data, i, "layer_id")
        stac_col == get_str_val_or_none(actual_layer_data, i, "stacCol")
        layer_name == get_str_val_or_none(actual_layer_data, i, "layer_name")
        data_format_val == get_str_val_or_none(actual_layer_data, i, "data_format")
        layer_description == get_str_val_or_none(actual_layer_data, i, "layer_description")
        main_dataset_id == Strip(Get(table_0, <<"id">>, <<>>))
        str(key_name, v) == If(v # None /\ v # <<>>, key_name, v)
        layer_to_append_cleaned ==
            str("id", layer_id)
            @@ str("stacCol", stac_col)
            @@ ("stacApiEndpoint" :> <<"https://dev.openveda.cloud/api/stac">>)
            @@ str("name", layer_name)
            @@ str("type", data_format_val)
            @@ str("description", layer_description)
            @@ ("initialDatetime" :> <<"newest">>)
            @@ ("zoomExtent" :> <<0, 20>>)
            @@ ("compare" :> [datasetId |-> main_dataset_id,
                              layerId |-> Or(layer_id, main_dataset_id),
                              mapLabel |-> MAP_LABEL_JS_CODE])
            @@ ("info" :>
                  [source |-> Strip(First(table_1, <<"content_source">>, Sentinel)),
                   spatialExtent |-> Strip(First(table_1, <<"spatial_extent">>, Sentinel)),
                   temporalResolution |->
                       Strip(First(table_1, <<"temporal_resolution">>, Sentinel)),
                   unit |-> Strip(First(table_1, <<"data_units">>, Sentinel))])
            @@ ("media" :> [src |-> <<"::file", " ", "<INSERT MANUALLY>">>,
                            alt |-> <<"<INSERT MANUALLY>">>])
            @@ IfNonEmpty("sourceParams", source_params(actual_layer_data, i))
            @@ IfNonEmpty("legend", legend_dict(actual_layer_data, i, hex_or_rgb))
            @@ IfNonEmpty("projection", IfHasValue("id", projection_id_val))
    IN  IF actual_layer_data = <<>>
        THEN [skip |-> TRUE, error |-> NoError, append |-> FALSE, layer |-> <<>>]
        ELSE PassEnd(FirstError(colormap_error, projection_error), layer_to_append_cleaned)

(***************************************************************************)
(* prose.py and dump.py: rendering                                         *)
(***************************************************************************)

\* orderTOP and orderBOTTOM of dump.py and batch_convert.py.
orderTOP ==
    << <<"Introduction paragraph">>, <<"Source Data Product Citation">>,
       <<"Version History">>, <<"Scientific Details">> >>

orderBOTTOM == << <<"Disclaimer">>, <<"Limitations of Use">>, <<"License">> >>

\* generate_mdx_content_headers(table_1): the values the block prints.
generate_mdx_content_headers(table_1) ==
    [block |-> "summary",
     header |-> None,
     body |-> << Get(table_1, <<"start_temporal_extent">>, <<"N/A">>),
                 Get(table_1, <<"end_temporal_extent">>, <<"N/A">>),
                 First(table_1, <<"temporal_resolution">>, <<"N/A">>),
                 First(table_1, <<"spatial_extent">>, <<"N/A">>),
                 First(table_1, <<"spatial_resolution">>, <<"N/A">>),
                 First(table_1, <<"data_type">>, <<"N/A">>),
                 First(table_1, <<"data_latency">>, <<"N/A">>) >>]

\* format_prose_block(content, header): the block's heading line (None for
\* the introduction) and its paragraphs, the non-blank lines stripped.
format_prose_block(content, header) ==
    LET lines == Split(content[header], <<"\n">>)
        formatted_paragraphs == NonEmpty([k \in 1..Len(lines) |-> Strip(lines[k])])
    IN  [block |-> "prose",
         header |-> IF header # <<"Introduction paragraph">> THEN header ELSE None,
         body |-> formatted_paragraphs]

\* The blocks for the headers of `order` that the prose map holds.
RECURSIVE RequiredBlocks(_, _)
RequiredBlocks(order, prose_content) ==
    IF order = <<>> THEN <<>>
    ELSE (IF Head(order) \in DOMAIN prose_content
          THEN <<format_prose_block(prose_content, Head(order))>> ELSE <<>>)
         \o RequiredBlocks(Tail(order), prose_content)

\* The optional blocks, one per entry of table_optional in .items() order.
RECURSIVE OptionalBlocks(_)
OptionalBlocks(table_optional) ==
    IF table_optional = <<>> THEN <<>>
    ELSE LET v == Head(table_optional)[2]
             key_ == CHOOSE h \in DOMAIN v[1] : TRUE
         IN  (IF Len(v) > 0 THEN <<format_prose_block(v[1], key_)>> ELSE <<>>)
             \o OptionalBlocks(Tail(table_optional))

\* mdx_parts_of with the optional blocks after the required-bottom ones.
\* The fault that property C13 has to tell from the code.
mdx_parts_optional_last(output, table_1, table_optional, prose_content) ==
    << [block |-> "frontmatter", header |-> None, body |-> output] >>
    \o << generate_mdx_content_headers(table_1) >>
    \o RequiredBlocks(orderTOP, prose_content)
    \o RequiredBlocks(orderBOTTOM, prose_content)
    \o OptionalBlocks(table_optional)

\* mdx_parts of dump.py (lines 36-68) and convert_single_file (lines 78-105).
mdx_parts_of(output, table_1, table_optional, prose_content) ==
    << [block |-> "frontmatter", header |-> None, body |-> output] >>
    \o << generate_mdx_content_headers(table_1) >>
    \o RequiredBlocks(orderTOP, prose_content)
    \o OptionalBlocks(table_optional)
    \o RequiredBlocks(orderBOTTOM, prose_content)

(***************************************************************************)
(* The conversion of one document (dump.py, convert_single_file)           *)
(***************************************************************************)

VARIABLES
    doc,         \* the document read: [tables, paragraphs]
    hex_or_rgb,  \* the color mode given on the command line
    pc,          \* where the conversion stands
    iTable,      \* extract_table_info_from_docx: index of the current table
    iRow,        \*   and of the current row in it
    table_0,     \* its three records
    table_1,
    table_2,
    content,     \* the prose map of extract_headers_and_paragraphs
    output,      \* the record construct_non_prose_section builds
    i,           \* its layers loop: index of the next parsed layer
    taken,       \* history: the index i each layer of output.layers came from
    mdx_parts,   \* the rendered blocks
    outfile,     \* what has been written to the output file
    error,       \* the exception that ended the conversion, or NoError
    color,       \* a color handed to utils.color_converter on its own
    calls,       \* the results of the calls of color_converter made on it
    docx_files,  \* batch_convert.main: the documents found, in list order
    file_index,  \*   how many of them its loop has finished
    successful_conversions,  \* its two counters
    failed_conversions,
    log          \* history: what each finished call of convert_single_file
                 \*   was given, built, wrote and returned

vars == << doc, hex_or_rgb, pc, iTable, iRow, table_0, table_1, table_2,
           content, output, i, taken, mdx_parts, outfile, error, color, calls,
           docx_files, file_index, successful_conversions, failed_conversions,
           log >>

\* The variables of batch_convert.main; a step of one conversion leaves them.
Batch == << docx_files, file_index, successful_conversions, failed_conversions,
            log >>

\* The loop position moved on to the next row there is, from row r of table
\* t; past the last table it is <<number of tables, 0>>.
RECURSIVE NextRow(_, _, _)
NextRow(d, t, r) ==
    IF t >= Len(d.tables) THEN <<Len(d.tables), 0>>
    ELSE IF r < Len(d.tables[t + 1]) THEN <<t, r>>
    ELSE NextRow(d, t + 1, 0)

AtRow == pc = "tables" /\ iTable < Len(doc.tables)

row == doc.tables[iTable + 1][iRow + 1]

header == RowHeader(row)

Advance ==
    /\ iTable' = NextRow(doc, iTable, iRow + 1)[1]
    /\ iRow' = NextRow(doc, iTable, iRow + 1)[2]

Rest == << doc, hex_or_rgb, content, output, i, taken, mdx_parts, outfile,
           color, calls, Batch >>

\* parse.py lines 306-307: header and second cell both empty, `continue`.
SkipRow ==
    /\ AtRow
    /\ Len(header) = 0 /\ Len(Strip(CellText(row, 1))) = 0
    /\ Advance
    /\ UNCHANGED << pc, table_0, table_1, table_2, error >>
    /\ UNCHANGED Rest

\* parse.py lines 309-310: header empty, second cell not: ValueError.
RaiseRow ==
    /\ AtRow
    /\ Len(header) = 0 /\ Len(Strip(CellText(row, 1))) # 0
    /\ pc' = "failed"
    /\ error' = Raised("ValueError", "Header is empty", <<>>, {})
    /\ UNCHANGED << iTable, iRow, table_0, table_1, table_2 >>
    /\ UNCHANGED Rest

\* parse.py lines 313-314
Table0Row ==
    /\ AtRow
    /\ Len(header) # 0 /\ iTable = 0
    /\ table_0' = table_0_info(row, header, table_0)
    /\ Advance
    /\ UNCHANGED << pc, table_1, table_2, error >>
    /\ UNCHANGED Rest

\* parse.py lines 315-316
Table1Row ==
    /\ AtRow
    /\ Len(header) # 0 /\ iTable = 1
    /\ table_1' = parse_table_value_content(row, header, table_0, table_1)
    /\ Advance
    /\ UNCHANGED << pc, table_0, table_2, error >>
    /\ UNCHANGED Rest

\* Table2Row that also files the row's first line in the record of table 1.
Table2RowFiled ==
    /\ AtRow
    /\ Len(header) # 0 /\ iTable = 2
    /\ table_2' = parse_additional_table_info(row, header, table_2)
    /\ table_1' = Put(table_1, header, <<FirstLine(Strip(CellText(row, 1)))>>)
    /\ Advance
    /\ UNCHANGED << pc, table_0, error >>
    /\ UNCHANGED Rest

\* parse.py lines 317-318
Table2Row ==
    /\ AtRow
    /\ Len(header) # 0 /\ iTable = 2
    /\ table_2' = parse_additional_table_info(row, header, table_2)
    /\ Advance
    /\ UNCHANGED << pc, table_0, table_1, error >>
    /\ UNCHANGED Rest

\* A row with a header in a table after the third: no branch of lines
\* 313-318 takes it.
OtherTableRow ==
    /\ AtRow
    /\ Len(header) # 0 /\ iTable > 2
    /\ Advance
    /\ UNCHANGED << pc, table_0, table_1, table_2, error >>
    /\ UNCHANGED Rest

\* retrieve_all_docx_data, parse.py lines 360-363: the tables are done, the
\* prose map is extracted.
ExtractProse ==
    /\ pc = "tables" /\ iTable >= Len(doc.tables)
    /\ content' = extract_headers_and_paragraphs(doc)
    /\ pc' = "assemble"
    /\ UNCHANGED << doc, hex_or_rgb, iTable, iRow, table_0, table_1, table_2,
                    output, i, taken, mdx_parts, outfile, error, color, calls,
                    Batch >>

\* AssembleHead that also writes the record so far to the output file.  The
\* fault that property C12 has to tell from the code.
AssembleHeadWriting ==
    /\ pc = "assemble"
    /\ LET head == OutputHead(table_0, table_1)
       IN  IF head.ok
           THEN /\ output' = head.output
                /\ pc' = "layers"
                /\ error' = error
           ELSE /\ output' = output
                /\ pc' = "failed"
                /\ error' = Raised("ValueError", "JSONDecodeError",
                                   Get(table_0, <<"description">>, <<>>), {})
    /\ i' = 0
    /\ outfile' = << [block |-> "frontmatter", header |-> None, body |-> output'] >>
    /\ UNCHANGED << doc, hex_or_rgb, iTable, iRow, table_0, table_1, table_2,
                    content, taken, mdx_parts, color, calls, Batch >>

\* construct_non_prose_section, prose.py lines 156-185: the record without
\* its layers; json.loads may raise.
AssembleHead ==
    /\ pc = "assemble"
    /\ LET head == OutputHead(table_0, table_1)
       IN  IF head.ok
           THEN /\ output' = head.output
                /\ pc' = "layers"
                /\ error' = error
           ELSE /\ output' = output
                /\ pc' = "failed"
                /\ error' = Raised("ValueError", "JSONDecodeError",
                                   Get(table_0, <<"description">>, <<>>), {})
    /\ i' = 0
    /\ UNCHANGED << doc, hex_or_rgb, iTable, iRow, table_0, table_1, table_2,
                    content, taken, mdx_parts, outfile, color, calls,
                    Batch >>

parsed_layers == Get(table_0, <<"layers">>, <<>>)

\* construct_non_prose_section, prose.py lines 188-338: one pass of the loop.
AssembleLayer ==
    /\ pc = "layers" /\ i < Len(parsed_layers)
    /\ LET Take(pass) ==
               IF pass.error # NoError
               THEN /\ pc' = "failed"
                    /\ error' = pass.error
                    /\ UNCHANGED << output, i, taken >>
               ELSE /\ pc' = pc
                    /\ error' = error
                    /\ i' = i + 1
                    /\ IF pass.append
                       THEN /\ output' = [output EXCEPT !.layers = Append(@, pass.layer)]
                            /\ taken' = Append(taken, i)
                       ELSE UNCHANGED << output, taken >>
       IN  Take(LayerPass(table_0, table_1, i, parsed_layers[i + 1], hex_or_rgb))
    /\ UNCHANGED << doc, hex_or_rgb, iTable, iRow, table_0, table_1, table_2,
                    content, mdx_parts, outfile, color, calls,
                    Batch >>

\* dump.py lines 36-68: the record is returned and the blocks are rendered.
Render ==
    /\ pc = "layers" /\ i >= Len(parsed_layers)
    /\ mdx_parts' = mdx_parts_of(output, table_1, table_2, content)
    /\ pc' = "write"
    /\ UNCHANGED << doc, hex_or_rgb, iTable, iRow, table_0, table_1, table_2,
                    content, output, i, taken, outfile, error, color, calls,
                    Batch >>

\* dump.py lines 71-72: utils.save_mdx_content(outfile, "".join(mdx_parts))
Write ==
    /\ pc = "write"
    /\ outfile' = mdx_parts
    /\ pc' = "done"
    /\ UNCHANGED << doc, hex_or_rgb, iTable, iRow, table_0, table_1, table_2,
                    content, output, i, taken, mdx_parts, error, color, calls,
                    Batch >>

Next ==
    \/ SkipRow \/ RaiseRow \/ Table0Row \/ Table1Row \/ Table2Row \/ OtherTableRow
    \/ ExtractProse \/ AssembleHead \/ AssembleLayer \/ Render \/ Write

\* The variables of a conversion of document d in mode m before its first
\* step, the control at `at`.
Begin(d, m, at) ==
    /\ doc = d
    /\ hex_or_rgb = m
    /\ pc = at
    /\ iTable = NextRow(d, 0, 0)[1]
    /\ iRow = NextRow(d, 0, 0)[2]
    /\ table_0 = <<>> /\ table_1 = <<>> /\ table_2 = <<>>
    /\ content = <<>>
    /\ output = [id |-> None, name |-> None, description |-> <<>>,
                 media |-> build_media_block(<<>>),
                 taxonomy |-> build_taxonomy_block(<<>>),
                 infoDescription |-> <<>>, layers |-> <<>>]
    /\ i = 0
    /\ taken = <<>>
    /\ mdx_parts = <<>>
    /\ outfile = <<>>
    /\ error = NoError

\* The state convert_single_file starts in for document d and mode m.
\* No batch: main has found no document and counted nothing.
NoBatch ==
    /\ docx_files = <<>>
    /\ file_index = 0
    /\ successful_conversions = 0
    /\ failed_conversions = 0
    /\ log = <<>>

Start(d, m) ==
    /\ Begin(d, m, "tables")
    /\ color = PyStr(<<>>)
    /\ calls = <<>>
    /\ NoBatch

(***************************************************************************)
(* The documents of the model                                              *)
(*                                                                         *)
(* A document is what python-docx hands to parse.py: doc.tables, each a    *)
(* list of rows of two cells with their text, and doc.paragraphs, each     *)
(* with a style name, the bold flag of each run and its text.              *)
(***************************************************************************)

\* Layer blocks per layers cell.
MaxLayers == 2

\* Rows per table in the documents that vary the rows.
MaxRows == 2

Row(c0, c1) == [cells |-> <<c0, c1>>]

Para(style, runs, text) == [style |-> style, runs |-> runs, text |-> text]

Doc(tables, paragraphs) == [tables |-> tables, paragraphs |-> paragraphs]

\* The line "<label>: <value>\n".
Line(label, value) == <<label, ":", " ">> \o value \o <<"\n">>

\* The same when the field is present (<<value>>), nothing when absent (<<>>).
Opt(label, o) == IF o = <<>> THEN <<>> ELSE Line(label, o[1])

\* A bracket group "[a, b]\n" of color stops.
RECURSIVE JoinComma(_)
JoinComma(items) ==
    IF items = <<>> THEN <<>>
    ELSE IF Len(items) = 1 THEN items[1]
    ELSE items[1] \o <<",", " ">> \o JoinComma(Tail(items))

OptStops(o) == IF o = <<>> THEN <<>> ELSE <<"[">> \o JoinComma(o[1]) \o <<"]", "\n">>

\* One layer block of a layers cell: its fields, each present or absent.
Block(nm, id, un, lt, lmin, lmax, cm, pr, st) ==
    [layer_name |-> nm, layer_id |-> id, units |-> un, legend_type |-> lt,
     legend_minimum |-> lmin, legend_maximum |-> lmax, colormap_name |-> cm,
     projection |-> pr, color_stops |-> st]

BlockText(b) ==
    Line("Layer name", b.layer_name)
    \o Opt("Layer id", b.layer_id)
    \o Opt("Units", b.units)
    \o Opt("Projection", b.projection)
    \o Opt("Legend type", b.legend_type)
    \o Opt("Legend minimum", b.legend_minimum)
    \o Opt("Legend maximum", b.legend_maximum)
    \o Opt("Colormap name", b.colormap_name)
    \o OptStops(b.color_stops)

Absent == <<>>

Some(v) == <<v>>

\* Blocks that vary the layer id beside populated other fields.
IdBlocks ==
    { Block(<<"A">>, id, un, Absent, Absent, Absent, Some(<<"viridis">>), Absent, Absent) :
        id \in { Absent, Some(<<>>), Some(<<"a">>), Some(<<"None">>),
                 Some(<<" ", "NULL", " ">>), Some(<<"Data not provided">>) },
        un \in { Absent, Some(<<"m">>) } }

\* Blocks that vary the legend.
LegendBlocks ==
    { Block(<<"A">>, Some(<<"a">>), Absent, lt, lmin, lmax, Absent, Absent, Absent) :
        lt \in { Absent, Some(<<"gradient">>), Some(<<"Gradient">>),
                 Some(<<"categorical">>), Some(<<"gradient", " ">>) },
        lmin \in { Absent, Some(<<"5">>), Some(<<"low">>), Some(<<"None">>) },
        lmax \in { Absent, Some(<<"1", "0">>) } }

\* Blocks that vary the colormap and the projection.
EnumBlocks ==
    { Block(<<"A">>, id, Absent, Absent, Absent, Absent, cm, pr, Absent) :
        id \in { Some(<<"a">>) },
        cm \in { Absent, Some(<<"viridis">>), Some(<<"Viridis">>), Some(<<"None">>),
                 Some(<<"bogus">>), Some(<<"viridis", " ">>) },
        pr \in { Absent, Some(<<"mercator">>), Some(<<"Mercator">>),
                 Some(<<"equalEarth">>), Some(<<"null">>) } }
    \cup
    { Block(<<"A">>, Absent, Absent, Absent, Absent, Absent, cm, Absent, Absent) :
        cm \in { Some(<<"bogus">>) } }

Red == <<"#", "F", "F", "0", "0", "0", "0">>

green == <<"0", "0", "f", "f", "0", "0">>

\* Blocks that vary the color stops.
StopBlocks ==
    { Block(<<"A">>, Some(<<"a">>), Absent, Absent, Absent, Absent, Absent, Absent, st) :
        st \in { Some(<<Red, green>>), Some(<<green, <<"red">>, Red>>),
                 Some(<<<<"red">>>>), Some(<<<<"None">>, Red>>),
                 Some(<<<<"#", "#">> \o green, green>>),
                 Some(<<<<"r", "g", "b", "(", "1", ",", "2", ",", "3", ")">>>>) } }

\* The blocks that cells of several layers are made of.
PairBlocks ==
    { Block(<<"A">>, Some(<<"a">>), Absent, Absent, Absent, Absent, Absent, Absent, Absent),
      Block(<<"B">>, Some(<<"b">>), Some(<<"m">>), Absent, Absent, Absent,
            Some(<<"viridis">>), Absent, Absent),
      Block(<<"C">>, Absent, Some(<<"k", "g">>), Some(<<"gradient">>), Some(<<"5">>),
            Absent, Absent, Absent, Some(<<Red>>)),
      Block(<<"B">>, Some(<<"b">>), Absent, Some(<<"categorical">>), Some(<<"7">>),
            Absent, Some(<<"Viridis">>), Absent, Absent) }

\* The sequences of 1..n blocks of a set.
RECURSIVE BlockSeqs(_, _)
BlockSeqs(S, n) ==
    IF n = 0 THEN {}
    ELSE LET shorter == BlockSeqs(S, n - 1)
         IN  { <<b>> : b \in S } \cup shorter
             \cup { Append(q, b) : q \in { x \in shorter : Len(x) = n - 1 }, b \in S }

RECURSIVE CellOf(_)
CellOf(blocks) ==
    IF blocks = <<>> THEN <<>> ELSE BlockText(Head(blocks)) \o CellOf(Tail(blocks))

\* A line after the last block, so that the last field of the cell is
\* followed by a newline when the cell is stripped.
Closing == <<"Notes", ":", " ", "end">>

\* The layers cells.
LayerCells ==
    { CellOf(<<b>>) \o Closing : b \in IdBlocks \cup LegendBlocks \cup EnumBlocks \cup StopBlocks }
    \cup { CellOf(q) \o tail : q \in BlockSeqs(PairBlocks, MaxLayers), tail \in {<<>>, Closing} }

IdRow == Row(<<"Id">>, <<"ds1">>)

Intro == << Para("Heading 1", <<FALSE>>, <<"Introduction paragraph">>),
            Para("Normal", <<FALSE>>, <<"Some", " ", "text">>) >>

\* Documents that vary the layers row of table 0.
LayerDocs ==
    { Doc(<< <<IdRow, Row(<<"Layers">>, c)>> >>, Intro) : c \in LayerCells }

\* The lines of a media cell after its first.
MediaRest ==
    <<"\n">> \o Line("Image text (alt)", <<"A glacier">>)
    \o Line("Author name", <<"J. Doe">>)
    \o <<"Author URL", ":", " ", "https://x.org">>

\* The first lines of the media cells.
MediaFirstLines ==
    { <<"Image", ":", " ", "photo.png">>,
      <<"Image", ":", " ", "./media/", "photo.png">>,
      <<"Image", ":", " ", "media.png">>,
      <<"Image", ":", " ", "A", ":", " ", "media.png">>,
      <<"photo.png">>,
      <<"./media/", " ", "photo.png">> }

MediaCells ==
    { first \o rest : first \in MediaFirstLines, rest \in {<<>>, MediaRest} }
    \cup { <<>> }

\* Documents that vary the media row of table 0.
MediaDocs ==
    { Doc(<< <<IdRow, Row(<<"Media">>, c)>> >>, Intro) : c \in MediaCells }

\* A tags cell, with its Source line or without.
TagsCell(source) ==
    Line("Topic", <<"Air">>) \o <<"Sub">> \o Line("topic", <<"Ozone">>)
    \o Opt("Source", source) \o <<"Product Type", ":", " ", "L3">>

\* The tags rows of table 0: none, one with a source, one without, two.
TagsRows ==
    { <<>>,
      <<Row(<<"Tags">>, TagsCell(Some(<<"NASA">>)))>>,
      <<Row(<<"Tags">>, TagsCell(Absent))>>,
      <<Row(<<"Tags">>, TagsCell(Some(<<"NASA">>))),
        Row(<<"Tags">>, TagsCell(Some(<<"ESA">>)))>> }

\* The content_source cells of table 1.
ContentCells ==
    { <<"Value", ":", " ", "null">>,
      <<"Value", ":", " ", "NULL">>,
      <<"Value", ":", " ", "ESA">>,
      <<"Value", ":", " ", "null", " ", "\n", "Value", ":", " ", "ESA">>,
      <<"Value", ":", " ", "ESA", "\n", "Value", ":", " ", "null">>,
      <<"Value", ":", " ", "null", "\n", "Value", ":", " ", "ESA">>,
      <<"Value", ":", " ", " ", "null">>,
      <<"Value", ":">>,
      <<"null">>,
      <<>> }

\* Documents that vary the tags rows and the content_source row.
SourceDocs ==
    { Doc(<< <<IdRow>> \o tags, <<Row(<<"Content_Source">>, c)>> >>, Intro) :
        tags \in TagsRows, c \in ContentCells }

\* A cell that every table can take: a first line, and the Header/Value
\* pair of table 2.
PlainCell == <<"Header", ":", " ", "h", "\n", "\n", "Value", ":", " ", "v">>

\* The rows of the documents that vary the rows: blank and malformed rows
\* beside a well-formed one.
RowKinds ==
    { Row(<<>>, <<>>),
      Row(<<" ">>, <<"\n", " ">>),
      Row(<<>>, <<"x">>),
      Row(<<" ", "\n">>, <<" ", "x">>),
      Row(<<" ", "Name", "\n", "more">>, PlainCell) }

\* The sequences of 0..n rows.
RECURSIVE RowSeqs(_)
RowSeqs(n) ==
    IF n = 0 THEN { <<>> }
    ELSE LET shorter == RowSeqs(n - 1)
         IN  shorter \cup { Append(q, r) : q \in { x \in shorter : Len(x) = n - 1 },
                                          r \in RowKinds }

\* Documents of four tables, one of which runs through the row sequences.
RowDocs ==
    { Doc([t \in 1..4 |-> IF t = at THEN rows ELSE <<Row(<<"Name">>, PlainCell)>>], Intro) :
        at \in 1..4, rows \in RowSeqs(MaxRows) }
    \cup { Doc(<<>>, <<>>) }

\* The description cells of table 0.
DescriptionCells ==
    { <<"A dataset">>,
      <<"The", " ", "\"", "best", "\"", " ", "dataset">>,
      <<"A", "\t", "B">>,
      <<"A", "\\", " ", "B">>,
      <<"A", "\\", "\\", "B">>,
      <<"A", "\\", "\"", "B">>,
      <<>> }

\* Documents that hold an id and a description and nothing else.
DescriptionDocs ==
    { Doc(<< <<IdRow, Row(<<"Description">>, c)>> >>, <<>>) : c \in DescriptionCells }

\* Paragraphs per document in the documents that vary the paragraphs.
MaxParas == 3

\* The paragraphs of these documents: headers by style and by a bold run,
\* with text and without, and content with text and without.
ParaKinds ==
    { Para("Heading 1", <<FALSE>>, <<"License">>),
      Para("Normal", <<TRUE>>, <<" ", "Disclaimer", " ">>),
      Para("Heading 2", <<>>, <<"Introduction paragraph">>),
      Para("Heading 1", <<>>, <<>>),
      Para("Normal", <<FALSE, TRUE>>, <<"bold", " ", "word">>),
      Para("Normal", <<FALSE>>, <<"text">>),
      Para("Normal", <<FALSE, FALSE>>, <<" ", "more", "\n", "lines", " ">>),
      Para("Normal", <<>>, <<>>) }

\* The sequences of 0..n paragraphs.
RECURSIVE ParaSeqs(_)
ParaSeqs(n) ==
    IF n = 0 THEN { <<>> }
    ELSE LET shorter == ParaSeqs(n - 1)
         IN  shorter \cup { Append(q, p) : q \in { x \in shorter : Len(x) = n - 1 },
                                          p \in ParaKinds }

\* Documents without tables that vary the paragraphs.
ParaDocs == { Doc(<<>>, ps) : ps \in ParaSeqs(MaxParas) }

\* The headers of the documents that vary the order of the sections.
SectionNames ==
    { <<"Disclaimer">>, <<"Introduction paragraph">>, <<"Scientific Details">>,
      <<"License">> }

\* The sequences of 0..n section names, a name more than once included.
RECURSIVE SectionSeqs(_)
SectionSeqs(n) ==
    IF n = 0 THEN { <<>> }
    ELSE LET shorter == SectionSeqs(n - 1)
         IN  shorter \cup { Append(q, h) : q \in { x \in shorter : Len(x) = n - 1 },
                                          h \in SectionNames }

\* A header paragraph for each name, each followed by a paragraph of content.
RECURSIVE Sections(_)
Sections(names) ==
    IF names = <<>> THEN <<>>
    ELSE << Para("Heading 1", <<FALSE>>, Head(names)),
            Para("Normal", <<FALSE>>, <<"About", " ">> \o Head(names)) >>
         \o Sections(Tail(names))

\* A cell of table 2: "Header: <h>", an empty line, "Value: <v>".
OptionalCell(h, v) == <<"Header", ":", " ">> \o h \o <<"\n", "\n", "Value", ":", " ">> \o v

\* The rows of table 2: none; two sections; and three rows the third of
\* which has the header cell of the first.
OptionalRows ==
    { <<>>,
      << Row(<<"Extra">>, OptionalCell(<<"Zeta">>, <<"z">>)),
         Row(<<"Another">>, OptionalCell(<<"Alpha">>, <<"a">>)) >>,
      << Row(<<"Extra">>, OptionalCell(<<"Zeta">>, <<"z">>)),
         Row(<<"Another">>, OptionalCell(<<"License">>, <<"a">>)),
         Row(<<"Extra">>, OptionalCell(<<"Omega">>, <<"o">>)),
         Row(<<"Third">>, <<"Header", ":", " ", "h">>) >> }

\* Documents that vary the order of the sections and the rows of table 2.
SectionDocs ==
    { Doc(<< <<IdRow>>, <<>>, rows >>, Sections(names)) :
        rows \in OptionalRows, names \in SectionSeqs(MaxParas) }

\* Tags cells that vary where the labelled lines stand: the Source line last,
\* the Subtopic line before the Topic line, a value with blanks around it, a
\* lower-case label, a Product Type line that is empty and not the last.
LabelTagsCells ==
    { Line("Topic", <<"Air">>) \o <<"Sub">> \o Line("topic", <<"Ozone">>)
          \o <<"Source", ":", " ", "NASA">>,
      <<"Sub">> \o Line("topic", <<"Ozone">>) \o Line("Topic", <<"Air">>)
          \o Line("Source", <<"NASA">>) \o <<"Product Type", ":", " ", "L3">>,
      Line("Topic", <<" ", "Air", " ">>) \o <<"Sub">> \o Line("topic", <<"Ozone">>)
          \o Line("Source", <<"NASA">>) \o <<"Product Type", ":", " ", " ", "L3">>,
      Line("topic", <<"Air">>) \o Line("Source", <<"NASA">>)
          \o Line("Source", <<"ESA">>) \o <<"Product Type", ":", "L3">>,
      <<"Product Type", ":", "\n">> \o Line("Topic", <<"Air">>)
          \o <<"Sub">> \o Line("topic", <<"Ozone">>) \o <<"end">> }

\* Media cells that vary where the labelled lines stand: the author name
\* last, the alternative text last, no labelled line but the first.
LabelMediaCells ==
    { <<"Image", ":", " ", "photo.png", "\n">>
          \o Line("Image text (alt)", <<"A glacier">>)
          \o <<"Author URL", ":", " ", "https://x.org", "\n">>
          \o <<"Author name", ":", " ", "J. Doe">>,
      <<"Image", ":", " ", "photo.png", "\n">>
          \o Line("Author name", <<"J. Doe">>)
          \o <<"Image text (alt)", ":", " ", "A glacier">>,
      <<"Image", ":", " ", "photo.png", "\n">>
          \o Line("Author name", <<" ", "J. Doe">>) \o <<"end">> }

\* Documents that vary the labelled lines of the media row and the tags row.
LabelDocs ==
    { Doc(<< <<IdRow, Row(<<"Tags">>, c)>> >>, Intro) : c \in LabelTagsCells }
    \cup { Doc(<< <<IdRow, Row(<<"Media">>, c)>> >>, Intro) : c \in LabelMediaCells }

\* A tags cell with given topic, subtopic and source values.
TaxonomyCell(topic, subtopic, source) ==
    Line("Topic", topic) \o <<"Sub">> \o Line("topic", subtopic)
    \o Line("Source", source) \o <<"Product Type", ":", " ", "L3">>

\* Tags cells that vary the comma lists: several tokens, empty tokens between
\* the commas, no token at all, an empty value.
TaxonomyCells ==
    << TaxonomyCell(<<"Air", ",", " ", "Water">>, <<"Ozone", ",", "Rain">>, <<"NASA">>),
       TaxonomyCell(<<",", " ", ",", "Air", " ", ",">>, <<",", " ">>, <<"ESA">>),
       TaxonomyCell(<<>>, <<" ">>, <<>>) >>

\* Documents that vary the comma lists of one tags row or of two.
TaxonomyDocs ==
    { Doc(<< <<IdRow, Row(<<"Tags">>, TaxonomyCells[a])>> >>, Intro) :
        a \in 1..Len(TaxonomyCells) }
    \cup { Doc(<< <<IdRow, Row(<<"Tags">>, TaxonomyCells[a]),
                   Row(<<"Tags">>, TaxonomyCells[b])>> >>, Intro) :
             a, b \in 1..Len(TaxonomyCells) }

\* Layers cells of one layer that vary what could fill sourceParams, legend
\* and projection: sentinel-like values, a resampling, one or both rescale
\* bounds, a legend minimum without a type, stops that are not colors.
ParamCells ==
    { BlockText(Block(<<"A">>, Some(<<"a">>), sent, Absent, lmin, Absent, sent, sent, st))
      \o Opt("Resampling", rs) \o Opt("Rescale minimum", rmin)
      \o Opt("Rescale maximum", rmax) \o Closing :
        sent \in { Absent, Some(<<"None">>) },
        lmin \in { Absent, Some(<<"5">>) },
        st \in { Absent, Some(<<<<"red">>>>), Some(<<<<"None">>>>) },
        rs \in { Absent, Some(<<"bilinear">>), Some(<<"null">>) },
        rmin \in { Absent, Some(<<"0">>), Some(<<"low">>) },
        rmax \in { Absent, Some(<<"1", "0">>) } }

\* Documents that vary the optional blocks of one layer.
ParamDocs ==
    { Doc(<< <<IdRow, Row(<<"Layers">>, c)>> >>, Intro) : c \in ParamCells }

\* A layers row of the layers with the given names, each with its id.
LayersRow(names) ==
    Row(<<"Layers">>,
        CellOf([k \in 1..Len(names) |->
                  Block(<<names[k]>>, Some(<<names[k], "-id">>), Absent, Absent,
                        Absent, Absent, Absent, Absent, Absent)]) \o Closing)

\* Documents with the layers of table 0 in one row, in two and in three.
LayerRowDocs ==
    { Doc(<< <<IdRow>> \o rows >>, Intro) :
        rows \in { << LayersRow(<<"A", "B", "C">>) >>,
                   << LayersRow(<<"A">>), LayersRow(<<"B">>) >>,
                   << LayersRow(<<"A", "B">>), LayersRow(<<"C">>) >>,
                   << LayersRow(<<"A">>), LayersRow(<<"B", "C">>) >>,
                   << LayersRow(<<"A">>), LayersRow(<<"B">>), LayersRow(<<"C">>) >> } }

\* Cells of a table-1 row read by the default rule: those of the
\* content_source row, and a "Value:" with nothing after it on its line.
ValueCells ==
    ContentCells
    \cup { <<"Value", ":", " ", "\n", "x">>,
           <<"Value", ":", "\n", "x">>,
           <<"Value", ":", " ", "a", " ", "Value", ":", " ", "b">>,
           <<"note", "\n", "value", ":", " ", "a", "\n", "Value", ":", " ", "\n",
             "VALUE", ":", " ", "c">> }

\* Documents that vary the cell of a table-1 row with the header `name`.
ValueDocs ==
    { Doc(<< <<IdRow>>, <<Row(<<"Name">>, c)>> >>, Intro) : c \in ValueCells }

\* Cells of a table-2 row: a header and a value on two lines, on one line,
\* in lower case, either of them empty, with lines between and after them.
PairCells ==
    { <<"Header", ":", " ", "h", "\n", "Value", ":", " ", "v">>,
      <<"Header", ":", " ", "h", " ", "Value", ":", " ", "v">>,
      <<"header", ":", " ", "h", "\n", "value", ":", " ", "v">>,
      <<"Header", ":", " ", "\n", "Value", ":", " ", "v">>,
      <<"Header", ":", " ", "h", "\n", " ", "Value", ":", " ">>,
      <<"note", "\n", "Header", ":", "h", "\n", "more", " ", "\n", "\n", "Value", ":",
        "v", "\n", "end">>,
      <<"Value", ":", " ", "v", "\n", "Header", ":", " ", "h">> }

\* Documents that vary the rows of table 2: one row, and a row after a
\* well-formed one, with the same header or with another.
PairDocs ==
    { Doc(<< <<IdRow>>, <<>>, <<Row(<<"Extra">>, c)>> >>, Intro) : c \in PairCells }
    \cup { Doc(<< <<IdRow>>, <<>>,
                  <<Row(<<"Extra">>, <<"Header", ":", " ", "Zeta", "\n", "Value", ":", " ", "z">>),
                    Row(h2, c)>> >>, Intro) :
             h2 \in { <<"Extra">>, <<"Another">> }, c \in PairCells }

\* Tags cells in which a label stands only at the end of a longer label: a
\* Subtopic line and no Topic line, a "Data Source" line and no Source line.
SuffixTagsCells ==
    { <<"Sub">> \o Line("topic", <<"Ozone">>) \o Line("Source", <<"NASA">>)
          \o <<"Product Type", ":", " ", "L3">>,
      Line("Topic", <<"Air">>) \o <<"Data", " ">> \o Line("Source", <<"ESA">>)
          \o <<"Product Type", ":", " ", "L3">> }

\* Documents with one tags row of such a cell.
SuffixDocs ==
    { Doc(<< <<IdRow, Row(<<"Tags">>, c)>> >>, Intro) : c \in SuffixTagsCells }

Docs ==
    LayerDocs \cup MediaDocs \cup SourceDocs \cup RowDocs \cup DescriptionDocs
    \cup ParaDocs \cup SectionDocs \cup LabelDocs \cup TaxonomyDocs \cup ParamDocs
    \cup LayerRowDocs \cup ValueDocs \cup PairDocs \cup SuffixDocs

Init == \E d \in Docs, m \in {"rgb", "hex"} : Start(d, m)

Spec == Init /\ [][Next]_vars

(***************************************************************************)
(* batch_convert.main: every document found is handed to                   *)
(* convert_single_file, which catches what the conversion raises.          *)
(***************************************************************************)

\* Documents per batch.
MaxFiles == 3

\* KeptDict is NewDict that hands on the dict the call before left.  The
\* fault that property C15 has to tell from the code.
KeptDict(left) == left

\* `table_0 = {}` of parse.py lines 293-295: a call starts with a new dict,
\* whatever the call before left in its own.
NewDict(left) == <<>>

\* What a finished call of convert_single_file leaves in the history.
LogEntry(result) ==
    [doc |-> doc, result |-> result, table_0 |-> table_0, table_1 |-> table_1,
     table_2 |-> table_2, content |-> content, output |-> output,
     mdx_parts |-> mdx_parts, outfile |-> outfile, error |-> error]

\* main lines 179-180 and convert_single_file lines 65-69: the next document
\* of the list is taken and its conversion starts, all locals new.
StartFile ==
    /\ pc = "batch" /\ file_index < Len(docx_files)
    /\ doc' = docx_files[file_index + 1]
    /\ pc' = "tables"
    /\ iTable' = NextRow(docx_files[file_index + 1], 0, 0)[1]
    /\ iRow' = NextRow(docx_files[file_index + 1], 0, 0)[2]
    /\ table_0' = NewDict(table_0)
    /\ table_1' = NewDict(table_1)
    /\ table_2' = NewDict(table_2)
    /\ content' = <<>>
    /\ output' = [id |-> None, name |-> None, description |-> <<>>,
                  media |-> build_media_block(<<>>),
                  taxonomy |-> build_taxonomy_block(<<>>),
                  infoDescription |-> <<>>, layers |-> <<>>]
    /\ i' = 0
    /\ taken' = <<>>
    /\ mdx_parts' = <<>>
    /\ outfile' = <<>>
    /\ error' = NoError
    /\ UNCHANGED << hex_or_rgb, color, calls, Batch >>

\* FailFile that ends the loop of main: the documents after a failed one are
\* not attempted.  The fault that property C11 has to tell from the code.
FailFileEndsBatch ==
    /\ pc = "failed"
    /\ docx_files # <<>>
    /\ log' = Append(log, LogEntry(None))
    /\ failed_conversions' = failed_conversions + 1
    /\ file_index' = Len(docx_files)
    /\ pc' = "batch"
    /\ UNCHANGED << doc, hex_or_rgb, iTable, iRow, table_0, table_1, table_2,
                    content, output, i, taken, mdx_parts, outfile, error,
                    color, calls, docx_files, successful_conversions >>

\* convert_single_file lines 115-116 and main lines 181-182: the conversion
\* returns its output path, a success is counted.
ReturnOutfile ==
    /\ pc = "done"
    /\ docx_files # <<>>
    /\ log' = Append(log, LogEntry(<<"outfile">>))
    /\ successful_conversions' = successful_conversions + 1
    /\ file_index' = file_index + 1
    /\ pc' = "batch"
    /\ UNCHANGED << doc, hex_or_rgb, iTable, iRow, table_0, table_1, table_2,
                    content, output, i, taken, mdx_parts, outfile, error,
                    color, calls, docx_files, failed_conversions >>

\* convert_single_file lines 118-120 and main lines 183-184: the exception
\* is caught, None is returned, a failure is counted.
FailFile ==
    /\ pc = "failed"
    /\ docx_files # <<>>
    /\ log' = Append(log, LogEntry(None))
    /\ failed_conversions' = failed_conversions + 1
    /\ file_index' = file_index + 1
    /\ pc' = "batch"
    /\ UNCHANGED << doc, hex_or_rgb, iTable, iRow, table_0, table_1, table_2,
                    content, output, i, taken, mdx_parts, outfile, error,
                    color, calls, docx_files, successful_conversions >>

\* main lines 166-168: no document found, main returns.
NoFiles ==
    /\ pc = "batch" /\ docx_files = <<>>
    /\ pc' = "nothing"
    /\ UNCHANGED << doc, hex_or_rgb, iTable, iRow, table_0, table_1, table_2,
                    content, output, i, taken, mdx_parts, outfile, error,
                    color, calls, Batch >>

\* main lines 188-192: the loop is over, the tally is reported.
Report ==
    /\ pc = "batch" /\ docx_files # <<>> /\ file_index >= Len(docx_files)
    /\ pc' = "reported"
    /\ UNCHANGED << doc, hex_or_rgb, iTable, iRow, table_0, table_1, table_2,
                    content, output, i, taken, mdx_parts, outfile, error,
                    color, calls, Batch >>

NextBatch ==
    \/ StartFile \/ ReturnOutfile \/ FailFile \/ NoFiles \/ Report
    \/ SkipRow \/ RaiseRow \/ Table0Row \/ Table1Row \/ Table2Row \/ OtherTableRow
    \/ ExtractProse \/ AssembleHead \/ AssembleLayer \/ Render \/ Write

\* A document of four tables that converts: a blank row, a layer with an id
\* and one without, a content source, an optional section.
WholeDoc ==
    Doc(<< <<IdRow, Row(<<>>, <<>>),
             Row(<<"Tags">>, TagsCell(Some(<<"NASA">>))),
             Row(<<"Layers">>,
                 Line("Layer name", <<"A">>) \o Line("Layer id", <<"a">>)
                 \o Line("Layer name", <<"B">>) \o Line("Units", <<"m">>)
                 \o Closing)>>,
           <<Row(<<"Content_Source">>, <<"Value", ":", " ", "null">>)>>,
           <<Row(<<"Extra">>, PlainCell)>>,
           <<Row(<<"Name">>, PlainCell)>> >>,
        Intro)

\* Documents that fail: a row without header, a colormap in the wrong case.
HeaderlessDoc == Doc(<< <<IdRow, Row(<<>>, <<"x">>)>> >>, Intro)

ColormapDoc ==
    Doc(<< <<IdRow,
             Row(<<"Layers">>,
                 Line("Layer name", <<"A">>) \o Line("Layer id", <<"a">>)
                 \o Line("Colormap name", <<"Viridis">>) \o Closing)>> >>,
        Intro)

\* The lists of documents find_all_docx_files may return.
RECURSIVE FileLists(_)
FileLists(n) ==
    IF n = 0 THEN { <<>> }
    ELSE LET shorter == FileLists(n - 1)
         IN  shorter \cup { Append(q, d) : q \in { x \in shorter : Len(x) = n - 1 },
                                          d \in { WholeDoc, HeaderlessDoc, ColormapDoc,
                                                  Doc(<<>>, <<>>) } }

InitBatch ==
    /\ \E m \in {"rgb", "hex"} : Begin(Doc(<<>>, <<>>), m, "batch")
    /\ color = PyStr(<<>>)
    /\ calls = <<>>
    /\ docx_files \in FileLists(MaxFiles)
    /\ file_index = 0
    /\ successful_conversions = 0
    /\ failed_conversions = 0
    /\ log = <<>>

SpecBatch == InitBatch /\ [][NextBatch]_vars

(***************************************************************************)
(* utils.color_converter on its own: a color is converted to each form,    *)
(* and each result that is a color is converted to the other form.         *)
(***************************************************************************)

Pipeline == << doc, hex_or_rgb, pc, iTable, iRow, table_0, table_1, table_2,
               content, output, i, taken, mdx_parts, outfile, error >>

\* calls[form] = color_converter(color, form)
Convert(form) ==
    /\ pc = "color"
    /\ form \notin DOMAIN calls
    /\ calls' = calls @@ (form :> color_converter(color, form))
    /\ UNCHANGED << color, Pipeline, Batch >>

ToHex == Convert("hex")

ToRgb == Convert("rgb")

\* calls[name] = color_converter(color_converter(color, from), to), once
\* the inner call has returned a color.
ConvertBack(from, to, name) ==
    /\ pc = "color"
    /\ from \in DOMAIN calls
    /\ calls[from].kind # "ValueError"
    /\ name \notin DOMAIN calls
    /\ calls' = calls @@ (name :> color_converter(calls[from], to))
    /\ UNCHANGED << color, Pipeline, Batch >>

HexToRgb == ConvertBack("hex", "rgb", "hex_rgb")

RgbToHex == ConvertBack("rgb", "hex", "rgb_hex")

NextColor == ToHex \/ ToRgb \/ HexToRgb \/ RgbToHex

\* The integer triples of the colors.
Triples ==
    { <<a, b, c>> : a \in {0, 255, 300}, b \in {0, 255, 300}, c \in {0, 255, 300} }
    \cup { <<7, 7, 7>>, <<1000, 0, 0>> }

\* "rgb(a,b,c)", with `gap` after each comma.
RgbString(t, gap) ==
    <<"r", "g", "b", "(">> \o DecStr(t[1]) \o <<",">> \o gap
    \o DecStr(t[2]) \o <<",">> \o gap \o DecStr(t[3]) \o <<")">>

\* The colors: hex strs, rgb strs, tuples, and what is none of them.
Colors ==
    { PyStr(x) : x \in { Red, green, <<"#">> \o green, <<"#", "#">> \o Tail(Red),
                         <<"#", "1", "2", "C", "0", "0", "0", "0">>,
                         <<"F", "F", "0">>, <<"red">>, <<>> } }
    \cup { PyStr(RgbString(t, gap)) : t \in Triples, gap \in { <<>>, <<" ">> } }
    \cup { PyTuple(t) : t \in Triples \cup { <<0, 0>>, <<-1, 0, 0>> } }

InitColor ==
    /\ Begin(Doc(<<>>, <<>>), "rgb", "color")
    /\ color \in Colors
    /\ calls = <<>>
    /\ NoBatch

SpecColor == InitColor /\ [][NextColor]_vars

(***************************************************************************)
(* Properties.  What several of them share comes first.                    *)
(***************************************************************************)

\* The dict the assembler reads for the layer at index j of parsed_layers
\* (j counts from 0), and the raw value of one of its fields, None when the
\* parser found none.
ParsedLayer(j) == Get(parsed_layers[j + 1], <<"Layer", j>>, <<>>)

RawField(j, nm) == Get(ParsedLayer(j), Key(nm, j), None)

\* "data not provided", "none" or "null", trimmed and in any letter case.
SentinelLike(v) ==
    Lower(Strip(v)) \in { <<"data not provided">>, <<"none">>, <<"null">> }

\* A field that holds data: found, not empty, not sentinel-like.
Populated(v) == v # None /\ Strip(v) # <<>> /\ ~SentinelLike(v)

\* The rows of table t (counted from 1) of the document whose header is h.
RowsWith(t, h) ==
    IF Len(doc.tables) < t THEN {}
    ELSE { r \in 1..Len(doc.tables[t]) : RowHeader(doc.tables[t][r]) = h }

\* The second cell, trimmed, of the one row of table t whose header is h.
CellOfRow(t, h) ==
    Strip(CellText(doc.tables[t][CHOOSE r \in RowsWith(t, h) : TRUE], 1))

\* The k-th element (k from 0) of a set of integers, in increasing order.
Nth(S, k) == CHOOSE x \in S : Cardinality({y \in S : y < x}) = k

\* C1: no layer of the output's `layers` list has an absent or empty id, and
\* the parsed layer an output layer came from has a layer id that is found,
\* not empty and not sentinel-like: a parsed layer without such an id is in
\* no state part of the output, whatever its other fields hold.
C1_NoLayerWithoutId ==
    \A k \in 1..Len(output.layers) :
        /\ "id" \in DOMAIN output.layers[k]
        /\ output.layers[k]["id"] # <<>>
        /\ output.layers[k]["id"] # None
        /\ Populated(RawField(taken[k], "layer_id"))

\* C1's case: the conversion is done, and a parsed layer with units and a
\* colormap but a sentinel-like id was read and left out.
C1_Witness ==
    /\ pc = "done"
    /\ \E j \in 0..(Len(parsed_layers) - 1) :
          /\ \A k \in 1..Len(taken) : taken[k] # j
          /\ RawField(j, "layer_id") # None
          /\ SentinelLike(RawField(j, "layer_id"))
          /\ Populated(RawField(j, "units"))
          /\ Populated(RawField(j, "colormap_name"))

\* The places of a layers cell where a "Layer name: " label starts, and the
\* k-th block (k from 0) of the cell: the text from its label up to the next.
NameStarts(text) ==
    { p \in 1..Len(text) : MatchAtI(text, p, <<"Layer name", ":", " ">>) }

OwnBlock(text, k) ==
    SubSeq(text, Nth(NameStarts(text), k),
           IF k + 1 < Cardinality(NameStarts(text))
           THEN Nth(NameStarts(text), k + 1) - 1 ELSE Len(text))

HasLabel(block, label) ==
    \E p \in 1..Len(block) : MatchAtI(block, p, label \o <<":", " ">>)

\* The fields of a layer that are written as "<label>: <value>" lines.
LabelledFields ==
    { out_names[k] : k \in 1..Len(out_names) } \ { "layer_name", "color_stops" }

\* C2: once the one layers row of table 0 is parsed, a layer whose own block
\* of the cell lacks a field's label has no key for that field in its dict.
C2_AbsentFieldOmitted ==
    (/\ Cardinality(RowsWith(1, <<"layers">>)) = 1
     /\ <<"layers">> \in DOMAIN table_0
     /\ Cardinality(NameStarts(CellOfRow(1, <<"layers">>))) = Len(parsed_layers))
    => \A j \in 0..(Len(parsed_layers) - 1), nm \in LabelledFields :
          ~HasLabel(OwnBlock(CellOfRow(1, <<"layers">>), j), LayerLabel(nm))
          => Key(nm, j) \notin DOMAIN ParsedLayer(j)

\* The legend of an output layer, the empty dict when it has none.
LegendOf(k) == Get(output.layers[k], "legend", <<>>)

\* The number a raw field holds: a decimal numeral once trimmed.
IsNumber(v) ==
    /\ Populated(v)
    /\ \A q \in 1..Len(Strip(v)) : IsDigit(Strip(v)[q])

\* C3 as the specification words it: in every output layer the legend holds
\* min (max) if and only if its type is "gradient".
C3_MinMaxIffGradient ==
    \A k \in 1..Len(output.layers) :
        /\ "min" \in DOMAIN LegendOf(k) <=> Get(LegendOf(k), "type", None) = <<"gradient">>
        /\ "max" \in DOMAIN LegendOf(k) <=> Get(LegendOf(k), "type", None) = <<"gradient">>

\* C3, amended: in every output layer the legend holds min (max) if and only
\* if its type is "gradient" and the layer's legend minimum (maximum) is a
\* number, and then min (max) is that number.
C3_MinMaxIffGradientAndNumber ==
    \A k \in 1..Len(output.layers) :
        /\ "min" \in DOMAIN LegendOf(k)
             <=> /\ Get(LegendOf(k), "type", None) = <<"gradient">>
                 /\ IsNumber(RawField(taken[k], "legend_minimum"))
        /\ "max" \in DOMAIN LegendOf(k)
             <=> /\ Get(LegendOf(k), "type", None) = <<"gradient">>
                 /\ IsNumber(RawField(taken[k], "legend_maximum"))
        /\ "min" \in DOMAIN LegendOf(k)
             => LegendOf(k)["min"] = DecVal(Strip(RawField(taken[k], "legend_minimum")))
        /\ "max" \in DOMAIN LegendOf(k)
             => LegendOf(k)["max"] = DecVal(Strip(RawField(taken[k], "legend_maximum")))

\* C3's case: an output layer of type "gradient" whose legend has no min.
C3_Witness ==
    /\ pc = "done"
    /\ \E k \in 1..Len(output.layers) :
          /\ Get(LegendOf(k), "type", None) = <<"gradient">>
          /\ "min" \notin DOMAIN LegendOf(k)

\* The places of a line where a "./media/<name>" path starts, and the path
\* that starts at p: it runs to the next whitespace.
PathStarts(line) ==
    { p \in 1..(Len(line) - 1) : line[p] = "./media/" /\ ~IsSpace(line[p + 1]) }

PathAt(line, p) ==
    SubSeq(line, p,
           IF \E q \in (p + 1)..Len(line) : IsSpace(line[q])
           THEN SetMin({ q \in (p + 1)..Len(line) : IsSpace(line[q]) }) - 1
           ELSE Len(line))

\* The text of a line after its last ": ", the whole line when it has none.
AfterLastSeparator(line) ==
    IF \E p \in 1..(Len(line) - 1) : line[p] = ":" /\ line[p + 1] = " "
    THEN SubSeq(line,
                SetMax({ p \in 1..(Len(line) - 1) : line[p] = ":" /\ line[p + 1] = " " }) + 2,
                Len(line))
    ELSE line

\* The main image the specification gives the first line of a media cell.
NormalisedImage(line) ==
    IF PathStarts(line) # {} THEN PathAt(line, SetMin(PathStarts(line)))
    ELSE <<"./media/">> \o AfterLastSeparator(line)

\* The media cell of the specification's scenario, and its media block.
ScenarioCell == <<"Image", ":", " ", "photo.png">> \o MediaRest

ScenarioBlock ==
    [src |-> <<"::file", " ", "./media/", "photo.png">>,
     alt |-> <<"A glacier">>,
     author |-> [name |-> <<"J. Doe">>, url |-> <<"https://x.org">>]]

\* C4: once the one media row of table 0 is parsed, the stored main image is
\* the "./media/<name>" path of the cell's first line if it has one, else
\* "./media/" followed by what follows the line's last ": "; and the cell of
\* the scenario assembles to the media block of the scenario.
C4_MediaPathNormalised ==
    (Cardinality(RowsWith(1, <<"media">>)) = 1 /\ <<"media">> \in DOMAIN table_0)
    => /\ table_0[<<"media">>][1]["main_media_image"]
            = NormalisedImage(FirstLine(CellOfRow(1, <<"media">>)))
       /\ (CellOfRow(1, <<"media">>) = ScenarioCell /\ pc \in {"layers", "write", "done"})
            => output.media = ScenarioBlock

\* The values that follow "Value:" in the one content_source row of table 1,
\* and the `source` values table 0's tags hold.
ContentValues == FindAllValue(CellOfRow(2, <<"content_source">>))

RECURSIVE SourcesOf(_)
SourcesOf(tags) ==
    IF tags = <<>> THEN <<>>
    ELSE (IF "source" \in DOMAIN Head(tags) THEN <<Head(tags)["source"]>> ELSE <<>>)
         \o SourcesOf(Tail(tags))

TagSources == SourcesOf(Get(table_0, <<"tags">>, <<>>))

OrSentinel(list) == IF list # <<>> THEN list ELSE <<Sentinel>>

ContentSourceParsed ==
    /\ Cardinality(RowsWith(2, <<"content_source">>)) = 1
    /\ <<"content_source">> \in DOMAIN table_1

\* C5 as the specification words it: once the content_source row of table 1
\* is parsed, table_1['content_source'] is the list of table 0's tags sources
\* (or [sentinel] without one) when the value after "Value:" is "null", and
\* for any other value what follows "Value:" (or [sentinel] without it).
C5_NullTakesTagsSources ==
    ContentSourceParsed
    => table_1[<<"content_source">>] =
          IF ContentValues # <<>> /\ ContentValues[1] = <<"null">>
          THEN OrSentinel(TagSources) ELSE OrSentinel(ContentValues)

\* C5, amended: the same with "null" in any letter case: when the first value
\* after "Value:" is "null", "NULL", "Null", ..., the tags sources are taken.
C5_NullAnyCaseTakesTagsSources ==
    ContentSourceParsed
    => table_1[<<"content_source">>] =
          IF ContentValues # <<>> /\ Lower(ContentValues[1]) = <<"null">>
          THEN OrSentinel(TagSources) ELSE OrSentinel(ContentValues)

\* C5's case: the value is "NULL", table 0's tags hold the sources "NASA"
\* and "ESA", and table_1['content_source'] is that list.
C5_Witness ==
    /\ ContentSourceParsed
    /\ ContentValues = << <<"NULL">> >>
    /\ table_1[<<"content_source">>] = << <<"NASA">>, <<"ESA">> >>

\* The parsed layers the loop of the assembler has gone through without an
\* exception: those before its index i whose dict it found.
Passed == { j \in 0..(i - 1) : ParsedLayer(j) # <<>> }

\* A value is in an enumeration as it stands: it is one of its members.
Member(v, enumeration) == Len(v) = 1 /\ v[1] \in enumeration

\* The colormap and the projection id an output layer holds, None without.
ColormapOf(k) == Get(Get(output.layers[k], "sourceParams", <<>>), "colormap_name", None)

ProjectionOf(k) == Get(Get(output.layers[k], "projection", <<>>), "id", None)

\* The assembly has met a value outside an enumeration at layer i.
Rejected(what, nm, enumeration) ==
    /\ pc = "failed"
    /\ error.exc = "ValueError" /\ error.what = what
    /\ error.value = Strip(RawField(i, nm))
    /\ error.valid = enumeration

\* C6 as the specification words it: the loop passes no layer whose colormap
\* or projection is outside its enumeration; a failure names the value and
\* the enumeration; a value in the enumeration is in the output unchanged.
C6_OutsideEnumerationFails ==
    /\ pc \in {"layers", "write", "done"}
         => \A j \in Passed :
               /\ RawField(j, "colormap_name") # None
                    => Member(RawField(j, "colormap_name"), valid_colors)
               /\ RawField(j, "projection") # None
                    => Member(RawField(j, "projection"), valid_projection)
    /\ (pc = "failed" /\ error.what = "Invalid colormap")
         => Rejected("Invalid colormap", "colormap_name", valid_colors)
    /\ (pc = "failed" /\ error.what = "Invalid projection")
         => Rejected("Invalid projection", "projection", valid_projection)
    /\ \A k \in 1..Len(output.layers) :
          /\ ColormapOf(k) = RawField(taken[k], "colormap_name")
          /\ ProjectionOf(k) = RawField(taken[k], "projection")

\* C6, amended: the value checked is the trimmed one, and only if it is
\* populated (a sentinel-like or empty value counts as absent and is not
\* checked).  The loop passes no layer whose checked colormap or projection
\* is outside its enumeration in its exact letter case; a failure names the
\* trimmed value and the enumeration; a checked value is in the output of a
\* layer that is emitted, trimmed, and an unchecked one is not.
C6_TrimmedPopulatedValueChecked ==
    /\ pc \in {"layers", "write", "done"}
         => \A j \in Passed :
               /\ Populated(RawField(j, "colormap_name"))
                    => Member(Strip(RawField(j, "colormap_name")), valid_colors)
               /\ Populated(RawField(j, "projection"))
                    => Member(Strip(RawField(j, "projection")), valid_projection)
    /\ (pc = "failed" /\ error.what = "Invalid colormap")
         => /\ Rejected("Invalid colormap", "colormap_name", valid_colors)
            /\ Populated(RawField(i, "colormap_name"))
            /\ ~Member(error.value, valid_colors)
    /\ (pc = "failed" /\ error.what = "Invalid projection")
         => /\ Rejected("Invalid projection", "projection", valid_projection)
            /\ Populated(RawField(i, "projection"))
            /\ ~Member(error.value, valid_projection)
    /\ \A k \in 1..Len(output.layers) :
          /\ ColormapOf(k) = IF Populated(RawField(taken[k], "colormap_name"))
                              THEN Strip(RawField(taken[k], "colormap_name")) ELSE None
          /\ ProjectionOf(k) = IF Populated(RawField(taken[k], "projection"))
                                THEN Strip(RawField(taken[k], "projection")) ELSE None

\* C6's case: the colormap "Viridis" has ended the assembly with the error
\* that names it and the enumeration.
C6_Witness ==
    /\ Rejected("Invalid colormap", "colormap_name", valid_colors)
    /\ error.value = <<"Viridis">>

\* The color stop tokens of parsed layer j, and those of them that are
\* populated; color_converter takes a token or rejects it.
StopsOf(j) == Get(ParsedLayer(j), Key("color_stops", j), <<>>)

Taken(token) == color_converter(PyStr(token), "rgb").kind # "ValueError"

BadStops(j) ==
    { q \in 1..Len(StopsOf(j)) : Populated(StopsOf(j)[q]) /\ ~Taken(StopsOf(j)[q]) }

GoodStops(j) ==
    { q \in 1..Len(StopsOf(j)) : Populated(StopsOf(j)[q]) /\ Taken(StopsOf(j)[q]) }

\* C7 as the specification words it: no assembly completes for a document
\* in which a layer the loop has read holds a color stop that color_converter
\* rejects.
C7_BadStopIsFatal ==
    pc \in {"write", "done"} => \A j \in Passed : BadStops(j) = {}

\* C7, amended: a color stop that color_converter rejects is left out and
\* nothing fails for it.  A conversion fails only for a row without header,
\* the description, a colormap or a projection; a layer with a populated id
\* that the loop has passed is in the output whatever its stops are; and
\* the legend of an output layer holds exactly as many stops as the layer
\* has populated stops that color_converter takes, and no `stops` key when
\* there is none.
C7_BadStopSkipped ==
    /\ pc = "failed"
         => error.what \in { "Header is empty", "JSONDecodeError",
                             "Invalid colormap", "Invalid projection" }
    /\ \A j \in Passed :
          Populated(RawField(j, "layer_id")) => \E k \in 1..Len(taken) : taken[k] = j
    /\ \A k \in 1..Len(output.layers) :
          IF GoodStops(taken[k]) = {}
          THEN "stops" \notin DOMAIN LegendOf(k)
          ELSE /\ "stops" \in DOMAIN LegendOf(k)
               /\ Len(LegendOf(k)["stops"]) = Cardinality(GoodStops(taken[k]))

\* C7's case: the conversion is done, and an output layer came from a parsed
\* layer with a stop color_converter rejects beside one it takes.
C7_Witness ==
    /\ pc = "done"
    /\ \E k \in 1..Len(output.layers) :
          /\ BadStops(taken[k]) # {}
          /\ GoodStops(taken[k]) # {}
          /\ "stops" \in DOMAIN LegendOf(k)

\* A cell that holds nothing but whitespace.
Blank(cell) == \A q \in 1..Len(cell) : cell[q] \in {" ", "\n", "\t"}

\* C8: no step follows a failure, and a step at a row does this: if the
\* row's first cell is blank (its header is empty) and its second cell is
\* not, the extraction ends with the ValueError "Header is empty", no record
\* is returned: nothing is assembled, rendered or written; if both cells are
\* blank, the step moves on and leaves the three records as they are.
C8_EmptyHeaderRaisesBlankRowSkipped ==
    [][ /\ pc # "failed"
        /\ (AtRow /\ Blank(CellText(row, 0)) /\ ~Blank(CellText(row, 1)))
             => /\ pc' = "failed"
                /\ error' = Raised("ValueError", "Header is empty", <<>>, {})
                /\ UNCHANGED << content, output, mdx_parts, outfile >>
        /\ (AtRow /\ Blank(CellText(row, 0)) /\ Blank(CellText(row, 1)))
             => /\ pc' = "tables" /\ error' = NoError
                /\ UNCHANGED << table_0, table_1, table_2 >>
                /\ << iTable', iRow' >> # << iTable, iRow >>
      ]_vars

\* C8's case: a row of whitespace in the first cell and text in the second
\* has ended the extraction, after a blank row before it was skipped.
C8_Witness ==
    /\ pc = "failed" /\ error.what = "Header is empty"
    /\ iRow > 0
    /\ Blank(CellText(doc.tables[iTable + 1][iRow], 0))
    /\ Blank(CellText(doc.tables[iTable + 1][iRow], 1))
    /\ CellText(row, 0) # <<>> /\ Blank(CellText(row, 0)) /\ ~Blank(CellText(row, 1))
    /\ outfile = <<>>

\* C9: a conversion fails only for a row without header or for a colormap or
\* a projection outside its enumeration: whatever else a document of rows of
\* two cells lacks, extraction, assembly and rendering complete.
C9_MissingDataNeverFatal ==
    pc = "failed"
    => error.what \in { "Header is empty", "Invalid colormap", "Invalid projection" }

\* C10: for a color c that color_converter takes, converting to hex and then
\* to rgb gives what converting c to rgb gives, and converting to rgb and
\* then to hex gives what converting c to hex gives.
C10_RoundTrip ==
    /\ ("hex_rgb" \in DOMAIN calls /\ "rgb" \in DOMAIN calls)
         => calls["hex_rgb"] = calls["rgb"]
    /\ ("rgb_hex" \in DOMAIN calls /\ "hex" \in DOMAIN calls)
         => calls["rgb_hex"] = calls["hex"]

\* The places of the control inside one conversion.
Converting == pc \in {"tables", "assemble", "layers", "write", "done", "failed"}

\* C11: in batch mode the documents are attempted in list order, each once:
\* the k-th finished call was given the k-th document of the list and the
\* call under way the next one; each finished call is counted as one success
\* (it returned its path) or one failure (it returned None), whatever the
\* calls before it returned; and when main is over the two counters add up
\* to the number of documents found.
C11_EachFileCountedOnce ==
    /\ file_index = Len(log) /\ file_index <= Len(docx_files)
    /\ \A k \in 1..Len(log) : log[k].doc = docx_files[k]
    /\ Converting => /\ file_index < Len(docx_files)
                     /\ doc = docx_files[file_index + 1]
    /\ successful_conversions = Cardinality({ k \in 1..Len(log) : log[k].result # None })
    /\ failed_conversions = Cardinality({ k \in 1..Len(log) : log[k].result = None })
    /\ successful_conversions + failed_conversions = file_index
    /\ pc \in {"reported", "nothing"}
         => successful_conversions + failed_conversions = Len(docx_files)

\* C11's case: the tally of three documents, the first and the last of which
\* failed and the second of which was converted.
C11_Witness ==
    /\ pc = "reported"
    /\ Len(log) = 3
    /\ log[1].result = None /\ log[2].result # None /\ log[3].result = None
    /\ successful_conversions = 1 /\ failed_conversions = 2

\* C12: the output file is written by one step only, the last of a
\* conversion: when it is taken the tables and the prose map are extracted,
\* every parsed layer has gone through the assembly and its checks, and the
\* blocks written are the blocks rendered from these.  A step that fails
\* leaves no file, and a call that is counted as failed has written none.
C12_NoFileForFailedDocument ==
    [][ /\ outfile' # outfile
             => \/ /\ pc = "write" /\ pc' = "done"
                   /\ iTable >= Len(doc.tables)
                   /\ content = extract_headers_and_paragraphs(doc)
                   /\ i >= Len(parsed_layers)
                   /\ error = NoError
                   /\ mdx_parts = mdx_parts_of(output, table_1, table_2, content)
                   /\ outfile = <<>> /\ outfile' = mdx_parts
                \/ /\ pc = "batch" /\ pc' = "tables" /\ outfile' = <<>>
        /\ pc' = "failed" => outfile' = <<>>
        /\ Len(log') > Len(log)
             => LET call == log'[Len(log')]
                IN  /\ call.result = None <=> call.error # NoError
                    /\ call.result = None => call.outfile = <<>>
                    /\ call.result # None => call.outfile = call.mdx_parts
      ]_vars

\* C12's case: of two calls of a batch the first wrote its file and the
\* second, which had assembled its head when a colormap ended it, wrote none.
C12_Witness ==
    /\ Len(log) >= 2
    /\ log[1].result # None /\ log[1].outfile # <<>>
    /\ log[2].result = None /\ log[2].error.what = "Invalid colormap"
    /\ log[2].output.id = <<"ds1">>
    /\ log[2].outfile = <<>>

\* The elements of a list of names that a set holds, in the list's order.
RECURSIVE Present(_, _)
Present(names, S) ==
    IF names = <<>> THEN <<>>
    ELSE (IF Head(names) \in S THEN <<Head(names)>> ELSE <<>>) \o Present(Tail(names), S)

\* The header of each rendered prose block, in the order of the blocks; the
\* introduction is rendered without its header line.
IsProseBlock(b) == b.block = "prose"

RenderedSections ==
    LET blocks == SelectSeq(mdx_parts, IsProseBlock)
    IN  [k \in 1..Len(blocks) |->
            IF blocks[k].header = None THEN <<"Introduction paragraph">>
            ELSE blocks[k].header]

\* The rows of the document's third table, and the section a row gives:
\* <<>> when the row gives none, else <<header, value>>.
ThirdTable == IF Len(doc.tables) >= 3 THEN doc.tables[3] ELSE <<>>

SectionOf(r) ==
    LET match == HeaderValueMatch(check_value_string_length(Strip(CellText(ThirdTable[r], 1))))
    IN  IF RowHeader(ThirdTable[r]) # <<>> /\ match # <<>>
           /\ match[1] # <<>> /\ match[2] # <<>>
        THEN match ELSE <<>>

\* The optional sections in encounter order: one for each first cell that
\* gives a section, where that first cell is first met, with the header its
\* last row gives.
RECURSIVE OptionalSections(_)
OptionalSections(r) ==
    IF r > Len(ThirdTable) THEN <<>>
    ELSE LET same == { q \in 1..Len(ThirdTable) :
                          /\ SectionOf(q) # <<>>
                          /\ RowHeader(ThirdTable[q]) = RowHeader(ThirdTable[r]) }
         IN  (IF SectionOf(r) # <<>> /\ r = SetMin(same)
              THEN <<SectionOf(SetMax(same))[1]>> ELSE <<>>)
             \o OptionalSections(r + 1)

\* The texts, trimmed, of the document's header paragraphs.
HeaderTexts ==
    { Strip(doc.paragraphs[k].text) :
        k \in { q \in 1..Len(doc.paragraphs) : is_header(doc.paragraphs[q]) } }

\* C13: once the blocks are rendered, the frontmatter and the summary come
\* first and the prose blocks follow in this order, whatever the order of the
\* headers in the document: the required-top headers the prose map holds in
\* their fixed order, the optional sections in encounter order, the
\* required-bottom headers the prose map holds in their fixed order; and a
\* required section is rendered only if its header is the text of a header
\* paragraph of the document.
C13_SectionsInFixedOrder ==
    pc \in {"write", "done"}
    => /\ Len(mdx_parts) >= 2
       /\ mdx_parts[1].block = "frontmatter" /\ mdx_parts[2].block = "summary"
       /\ \A k \in 3..Len(mdx_parts) : mdx_parts[k].block = "prose"
       /\ RenderedSections =
             Present(<< <<"Introduction paragraph">>, <<"Source Data Product Citation">>,
                        <<"Version History">>, <<"Scientific Details">> >>, DOMAIN content)
             \o OptionalSections(1)
             \o Present(<< <<"Disclaimer">>, <<"Limitations of Use">>, <<"License">> >>,
                        DOMAIN content)
       /\ DOMAIN content \subseteq HeaderTexts

\* C13's case: the document has its sections in the order License,
\* Disclaimer, Introduction paragraph and two optional sections, and they are
\* rendered as Introduction paragraph, the optional ones, Disclaimer, License.
C13_Witness ==
    /\ pc = "done"
    /\ doc.paragraphs = Sections(<< <<"License">>, <<"Disclaimer">>,
                                    <<"Introduction paragraph">> >>)
    /\ RenderedSections = << <<"Introduction paragraph">>, <<"Zeta">>, <<"Alpha">>,
                             <<"Disclaimer">>, <<"License">> >>

\* The single-match rules of a row of table 0: the key an extractor emits
\* and the label of the line it reads.
SingleRules(h) ==
    IF h = <<"media">>
    THEN { <<"main_fig_alt_text", <<"Image text (alt)">>>>,
           <<"main_fig_author_name", <<"Author name">>>>,
           <<"main_fig_author_URL", <<"Author URL">>>> }
    ELSE { <<"topic", <<"Topic">>>>, <<"subtopic", <<"Sub", "topic">>>>,
           <<"source", <<"Source">>>>, <<"product_type", <<"Product Type">>>> }

\* The lines of a cell that start with a label and a colon, in any case.
LabelLines(cell, label) ==
    LET lines == Split(cell, <<"\n">>)
    IN  { k \in 1..Len(lines) : MatchAtI(lines[k], 1, label \o <<":">>) }

\* What a single-match rule is to emit for a cell: the trimmed value of the
\* first line with the label, the sentinel when no line has it.
LineValue(cell, label) ==
    LET lines == Split(cell, <<"\n">>)
        first == lines[SetMin(LabelLines(cell, label))]
    IN  IF LabelLines(cell, label) = {} THEN Sentinel
        ELSE Strip(SubSeq(first, Len(label) + 2, Len(first)))

\* The value table 0 holds under a key of its media or tags list.
Emitted(h, name) ==
    LET at == { k \in 1..Len(table_0[h]) : name \in DOMAIN table_0[h][k] }
    IN  table_0[h][SetMin(at)][name]

\* C14: once the one media row or the one tags row of table 0 is read, each of
\* its single-match rules has emitted the trimmed value of the first line of
\* the cell that starts with the rule's label, in any letter case and at any
\* line of the cell, the last included, and the sentinel when the cell has no
\* such line.
C14_LabelledLineValue ==
    \A h \in {<<"media">>, <<"tags">>} :
        (Cardinality(RowsWith(1, h)) = 1 /\ h \in DOMAIN table_0)
        => \A rule \in SingleRules(h) :
              Emitted(h, rule[1]) = LineValue(CellOfRow(1, h), rule[2])

\* C15: within one batch run, any two conversions of the same document end
\* with the same result, the same records of the three tables, the same prose
\* map, the same metadata record, the same rendered parts and the same file
\* text, whatever was converted before them or between them.
C15_SameDocumentSameResult ==
    \A a, b \in 1..Len(log) :
        log[a].doc = log[b].doc => log[a] = log[b]

\* C15's case: a document was converted, then another one with other
\* tables, then the first one again, and the first one's file was written
\* both times.
C15_Witness ==
    \E a, b, c \in 1..Len(log) :
        /\ a < b /\ b < c
        /\ log[a].doc = log[c].doc
        /\ log[b].doc # log[a].doc
        /\ log[a].result # None /\ log[c].result # None
        /\ log[a].table_0 # <<>> /\ log[b].table_0 # <<>>
        /\ log[a].table_0 # log[b].table_0
        /\ log[c].outfile # <<>>

\* The value the tags of table 0 give for a key: that of the last entry
\* that holds a non-empty value for it, nothing when there is none.
TagValue(name) ==
    LET tags == Get(table_0, <<"tags">>, <<>>)
        at == { k \in 1..Len(tags) : name \in DOMAIN tags[k] /\ tags[k][name] # <<>> }
    IN  IF at = {} THEN <<>> ELSE tags[SetMax(at)][name]

\* The trimmed non-empty tokens between the commas of a value, in order.
Tokens(v) ==
    LET parts == Split(v, <<",">>)
        kept == { k \in 1..Len(parts) : Strip(parts[k]) # <<>> }
    IN  [j \in 1..Cardinality(kept) |-> Strip(parts[Nth(kept, j - 1)])]

\* The values of a taxonomy entry for a tag value: its tokens, the sentinel
\* alone when it has none.
TokensOrSentinel(v) == IF Tokens(v) = <<>> THEN <<Sentinel>> ELSE Tokens(v)

\* C16: the taxonomy of an assembled record has exactly three entries, named
\* Topics, Subtopics, Source in this order; the values of Topics and of
\* Subtopics are the trimmed non-empty comma-split tokens of the tag value,
\* and the sentinel alone when there is no token or no tags row; the values
\* of Source are the one source given, and the sentinel when none was given.
C16_TaxonomyThreeEntries ==
    pc \in {"layers", "write", "done"} =>
        /\ Len(output.taxonomy) = 3
        /\ output.taxonomy[1].name = "Topics"
        /\ output.taxonomy[2].name = "Subtopics"
        /\ output.taxonomy[3].name = "Source"
        /\ output.taxonomy[1].values = TokensOrSentinel(TagValue("topic"))
        /\ output.taxonomy[2].values = TokensOrSentinel(TagValue("subtopic"))
        /\ output.taxonomy[3].values =
              << IF TagValue("source") = <<>> THEN Sentinel ELSE TagValue("source") >>

\* C16's case: a record was assembled from tags whose topic has a token and
\* empty places between its commas, whose subtopic has commas but no token,
\* and whose source was given.
C16_Witness ==
    /\ pc = "done"
    /\ Len(output.taxonomy[1].values) >= 1
    /\ Len(Split(TagValue("topic"), <<",">>)) > Len(output.taxonomy[1].values)
    /\ TagValue("subtopic") # <<>>
    /\ TagValue("subtopic") # Sentinel
    /\ output.taxonomy[2].values = <<Sentinel>>
    /\ output.taxonomy[3].values # <<Sentinel>>

\* The fields that each optional block of a layer can hold.
BlockFields(b) ==
    CASE b = "sourceParams" -> {"colormap_name", "resampling", "rescale"}
      [] b = "legend" -> {"unit", "type", "min", "max", "stops"}
      [] b = "projection" -> {"id"}

\* What fills a field of an optional block of parsed layer j: a populated
\* colormap or resampling or two numeric rescale bounds; populated units or
\* legend type or a color stop that is taken; a populated projection.
Fills(b, j) ==
    CASE b = "sourceParams" ->
            \/ Populated(RawField(j, "colormap_name"))
            \/ Populated(RawField(j, "resampling"))
            \/ IsNumber(RawField(j, "rescale_min")) /\ IsNumber(RawField(j, "rescale_max"))
      [] b = "legend" ->
            \/ Populated(RawField(j, "units"))
            \/ Populated(RawField(j, "legend_type"))
            \/ GoodStops(j) # {}
      [] b = "projection" -> Populated(RawField(j, "projection"))

\* C17: in every layer of the output, each of sourceParams, legend and
\* projection is present exactly if data that is not sentinel-like has filled
\* one of its fields, and a block that is present is a mapping with at least
\* one field: none is empty, none is null.
C17_OptionalBlocksNeverEmpty ==
    \A k \in 1..Len(output.layers) :
        \A b \in {"sourceParams", "legend", "projection"} :
            /\ b \in DOMAIN output.layers[k] <=> Fills(b, taken[k])
            /\ b \in DOMAIN output.layers[k] =>
                  /\ DOMAIN output.layers[k][b] # {}
                  /\ DOMAIN output.layers[k][b] \subseteq BlockFields(b)

\* C17's case: a finished conversion emitted a layer without any of the
\* three blocks although the document gives sentinel-like units, colormap
\* and projection, one rescale bound, a legend minimum and a stop that is
\* no color.
C17_Witness ==
    /\ pc = "done"
    /\ Len(output.layers) = 1
    /\ \A b \in {"sourceParams", "legend", "projection"} :
          b \notin DOMAIN output.layers[1]
    /\ RawField(taken[1], "units") # None
    /\ RawField(taken[1], "colormap_name") # None
    /\ RawField(taken[1], "projection") # None
    /\ RawField(taken[1], "rescale_min") # None
    /\ RawField(taken[1], "rescale_max") = None
    /\ RawField(taken[1], "legend_minimum") # None
    /\ BadStops(taken[1]) # {}

\* C18: a parsed layer whose id is absent, empty or sentinel-like never ends
\* the assembly with an error, whatever its colormap, projection and color
\* stops hold: when a pass of the layers loop has failed, the layer of that
\* pass has an id.
C18_LayerWithoutIdNeverFatal ==
    (pc = "failed" /\ error.what \in {"Invalid colormap", "Invalid projection"})
    => Populated(RawField(i, "layer_id"))

\* The dict of the p-th container of table 0's layers list, the index its
\* key carries, and the layer id it holds.
ContainerIndex(p) == (CHOOSE key \in DOMAIN parsed_layers[p] : TRUE)[2]

ContainerData(p) == parsed_layers[p][<<"Layer", ContainerIndex(p)>>]

ContainerId(p) == Get(ContainerData(p), Key("layer_id", ContainerIndex(p)), None)

\* The containers whose layer has an id once cleaned.
WithId == { p \in 1..Len(parsed_layers) : Populated(ContainerId(p)) }

\* C19: when the assembly of a document is complete, the layers of the
\* output are the layers parsed from table 0 that have an id, each once and
\* in the order of the source, from however many layers rows they come.
C19_EveryLayerWithIdOnce ==
    pc \in {"write", "done"} =>
        /\ Len(output.layers) = Cardinality(WithId)
        /\ \A k \in 1..Len(output.layers) :
              output.layers[k]["id"] = Strip(ContainerId(Nth(WithId, k - 1)))

\* The header paragraphs of the document, and the content paragraphs between
\* header k and the next header or the end of the document.
HeaderParas == { k \in 1..Len(doc.paragraphs) : is_header(doc.paragraphs[k]) }

BodyOf(k) ==
    { q \in (k + 1)..Len(doc.paragraphs) :
        \A h \in HeaderParas : ~(k < h /\ h <= q) }

\* The trimmed texts of the content paragraphs of header k, joined by
\* newlines and trimmed.
BodyText(k) ==
    Strip(JoinLines([j \in 1..Cardinality(BodyOf(k)) |->
                        Strip(doc.paragraphs[Nth(BodyOf(k), j - 1)].text)]))

\* C20: once the prose map is extracted, the entry of each header paragraph
\* is the newline-joined, trimmed text of exactly the content paragraphs
\* between it and the next header, in document order, so that every content
\* paragraph after a header is in the entry of the nearest header before it;
\* a header without an entry has no content paragraph, and the map has no
\* other entries.
C20_ContentUnderNearestHeader ==
    pc \in {"assemble", "layers", "write", "done"} =>
        /\ \A k \in HeaderParas :
              IF Strip(doc.paragraphs[k].text) \in DOMAIN content
              THEN content[Strip(doc.paragraphs[k].text)] = BodyText(k)
              ELSE BodyOf(k) = {}
        /\ \A key \in DOMAIN content :
              \E k \in HeaderParas : key = Strip(doc.paragraphs[k].text)

\* The trimmed text of paragraph k, and the header paragraphs with the same
\* trimmed text as header k that come before it or after it.
ParaText(k) == Strip(doc.paragraphs[k].text)

Namesakes(k) == { h \in HeaderParas : h # k /\ ParaText(h) = ParaText(k) }

\* The rendered prose blocks whose section is h.
BlocksOf(h) ==
    { b \in 1..Len(mdx_parts) :
        /\ mdx_parts[b].block = "prose"
        /\ mdx_parts[b].header = (IF h = <<"Introduction paragraph">> THEN None ELSE h) }

\* C21: once the prose map is extracted, a header paragraph with text that
\* another header follows at once has an entry, with an empty body unless a
\* later header has the same text; a header paragraph with text that ends
\* the document has no entry unless an earlier header has the same text; and
\* in a finished conversion a required header whose entry has an empty body
\* is rendered as one block without paragraphs.
C21_EmptyEntryOnlyBeforeHeader ==
    pc \in {"assemble", "layers", "write", "done"} =>
        /\ \A k \in HeaderParas :
              (ParaText(k) # <<>> /\ k + 1 \in HeaderParas) =>
                  /\ ParaText(k) \in DOMAIN content
                  /\ (\A h \in Namesakes(k) : h < k) => content[ParaText(k)] = <<>>
        /\ \A k \in HeaderParas :
              (ParaText(k) # <<>> /\ k = Len(doc.paragraphs) /\ Namesakes(k) = {}) =>
                  ParaText(k) \notin DOMAIN content
        /\ pc = "done" =>
              \A r \in 1..(Len(orderTOP) + Len(orderBOTTOM)) :
                  LET h == (orderTOP \o orderBOTTOM)[r]
                  IN  (h \in DOMAIN content /\ content[h] = <<>>) =>
                         /\ Cardinality(BlocksOf(h)) = 1
                         /\ \A b \in BlocksOf(h) : mdx_parts[b].body = <<>>

\* C21's case: a finished conversion of a document in which a required
\* header without content is followed at once by another header with text
\* that ends the document: the first is rendered as a block with an empty
\* body, the second has no entry and no block.
C21_Witness ==
    /\ pc = "done"
    /\ Len(doc.paragraphs) >= 2
    /\ LET last == Len(doc.paragraphs)
       IN  /\ (last - 1) \in HeaderParas /\ last \in HeaderParas
           /\ ParaText(last - 1) = <<"License">>
           /\ ParaText(last) = <<"Disclaimer">>
           /\ content[<<"License">>] = <<>>
           /\ <<"Disclaimer">> \notin DOMAIN content
           /\ BlocksOf(<<"License">>) # {}
           /\ BlocksOf(<<"Disclaimer">>) = {}

\* The headers of table 1 that the default rule does not read.
SpecialHeaders ==
    { <<"content_source">>, <<"temporal_extent">>, <<"legend_value_range">> }

\* The headers of the rows of table 1 that the default rule has read: the
\* header stands in one row of the table and is a key of its record.
DefaultRead ==
    { h \in DOMAIN table_1 \ SpecialHeaders : Cardinality(RowsWith(2, h)) = 1 }

\* The places of a cell that follow "Value:", in any case, and one
\* whitespace character; and those of them that are the first of their line.
ValuePlaces(cell) ==
    { p \in 4..(Len(cell) + 1) :
        MatchAtI(cell, p - 3, <<"Value", ":">>) /\ IsSpace(cell[p - 1]) }

FirstPlaces(cell) ==
    { p \in ValuePlaces(cell) :
        \A q \in ValuePlaces(cell) : q < p => LineEnd(cell, q) # LineEnd(cell, p) }

\* The rest of the line from place p on.
RestOfLine(cell, p) == SubSeq(cell, p, LineEnd(cell, p) - 1)

HeaderPlaces(cell) ==
    { a \in 1..(Len(cell) - 1) : cell[a] = "Header" /\ cell[a + 1] = ":" }

ValueAfter(cell, a) ==
    { b \in (a + 3)..(Len(cell) - 1) :
        /\ cell[b] = "Value" /\ cell[b + 1] = ":"
        /\ \E n \in (a + 2)..(b - 1) :
              cell[n] = "\n" /\ \A q \in n..(b - 1) : IsSpace(cell[q]) }

\* A cell matches when a "Value:" on a later line follows its first
\* "Header:"; h is the trimmed text between the two labels, v the trimmed
\* text after "Value:".
PairMatches(cell) ==
    HeaderPlaces(cell) # {} /\ ValueAfter(cell, SetMin(HeaderPlaces(cell))) # {}

PairH(cell) ==
    Strip(SubSeq(cell, SetMin(HeaderPlaces(cell)) + 2,
                 SetMin(ValueAfter(cell, SetMin(HeaderPlaces(cell)))) - 1))

PairV(cell) ==
    Strip(SubSeq(cell, SetMin(ValueAfter(cell, SetMin(HeaderPlaces(cell)))) + 2,
                 Len(cell)))

PairKept(cell) == PairMatches(cell) /\ PairH(cell) # <<>> /\ PairV(cell) # <<>>

C24_RowWritesOwnRecordOnly ==
    [][ /\ table_0' # table_0 => (AtRow /\ iTable = 0)
        /\ table_1' # table_1 => (AtRow /\ iTable = 1)
        /\ table_2' # table_2 => (AtRow /\ iTable = 2)
        /\ content' # content => (pc = "tables" /\ ~AtRow)
        /\ AtRow => \/ pc' = "failed"
                    \/ iTable' > iTable
                    \/ iTable' = iTable /\ iRow' > iRow
      ]_vars

\* C24's case: a conversion is finished whose three tables each gave an
\* entry and whose paragraphs gave a prose map, and whose file is written.
C24_Witness ==
    /\ pc = "done"
    /\ table_0 # <<>> /\ table_1 # <<>> /\ table_2 # <<>> /\ content # <<>>
    /\ outfile # <<>>

\* C25: once the one media row or the one tags row of table 0 is read, a
\* single-match rule whose label starts no line of the cell has emitted the
\* sentinel: a value is never taken from a line whose label only ends with
\* the rule's label, as the line "Subtopic: <x>" does for the label "Topic".
C25_ValueFromOwnLabelOnly ==
    \A h \in {<<"media">>, <<"tags">>} :
        (Cardinality(RowsWith(1, h)) = 1 /\ h \in DOMAIN table_0)
        => \A rule \in SingleRules(h) :
              LabelLines(CellOfRow(1, h), rule[2]) = {}
              => Emitted(h, rule[1]) = Sentinel


\* A color stop of the output in the form "#RRGGBB": a hash sign and six
\* hexadecimal digits in upper case.
IsHexForm(s) ==
    /\ Len(s) = 7
    /\ s[1] = "#"
    /\ \A q \in 2..7 : IsHexDigit(s[q])

\* A color stop of the output in the form "rgb(r,g,b)": three runs of
\* decimal digits between the brackets, a comma between two runs.
IsRgbForm(s) ==
    /\ Len(s) >= 10
    /\ SubSeq(s, 1, 4) = <<"r", "g", "b", "(">>
    /\ s[Len(s)] = ")"
    /\ \A q \in 5..(Len(s) - 1) : IsDigit(s[q]) \/ s[q] = ","
    /\ Cardinality({q \in 5..(Len(s) - 1) : s[q] = ","}) = 2
    /\ \A q \in 5..(Len(s) - 1) : s[q] = "," => (IsDigit(s[q - 1]) /\ IsDigit(s[q + 1]))

\* The six hexadecimal digits a token of a bracket group stands for.
SixDigits(token) == Upper(LStripHash(token))

\* The stop an accepted token is written as in a mode.
StopForm(token, mode) ==
    IF mode = "hex" THEN <<"#">> \o SixDigits(token)
    ELSE <<"r", "g", "b", "(">>
         \o DecStr(16 * HexVal(SixDigits(token)[1]) + HexVal(SixDigits(token)[2]))
         \o <<",">>
         \o DecStr(16 * HexVal(SixDigits(token)[3]) + HexVal(SixDigits(token)[4]))
         \o <<",">>
         \o DecStr(16 * HexVal(SixDigits(token)[5]) + HexVal(SixDigits(token)[6]))
         \o <<")">>

\* C26: every color stop of every layer of the output is in the form of the
\* color mode, "rgb(r,g,b)" in mode "rgb" and "#RRGGBB" with upper-case
\* digits in mode "hex", so that no record mixes the two forms; and the
\* stops of a layer are the accepted tokens of its bracket group, one stop a
\* token, in the order of the tokens.
C26_StopsInOneForm ==
    \A k \in 1..Len(output.layers) :
        "stops" \in DOMAIN LegendOf(k) =>
            /\ hex_or_rgb \in {"rgb", "hex"}
            /\ \A q \in 1..Len(LegendOf(k)["stops"]) :
                  IF hex_or_rgb = "rgb"
                  THEN IsRgbForm(LegendOf(k)["stops"][q]) /\ ~IsHexForm(LegendOf(k)["stops"][q])
                  ELSE IsHexForm(LegendOf(k)["stops"][q]) /\ ~IsRgbForm(LegendOf(k)["stops"][q])
            /\ Len(LegendOf(k)["stops"]) = Cardinality(GoodStops(taken[k]))
            /\ \A q \in 1..Len(LegendOf(k)["stops"]) :
                  LegendOf(k)["stops"][q]
                      = StopForm(StopsOf(taken[k])[Nth(GoodStops(taken[k]), q - 1)], hex_or_rgb)

\* C26's case: a conversion in mode "hex" is finished in which a layer has
\* two stops or more that come from tokens not written alike, one of them
\* in lower case, and a token between them that was rejected.
C26_Witness ==
    /\ pc = "done"
    /\ hex_or_rgb = "hex"
    /\ \E k \in 1..Len(output.layers) :
          /\ "stops" \in DOMAIN LegendOf(k)
          /\ Len(LegendOf(k)["stops"]) >= 2
          /\ BadStops(taken[k]) # {}
          /\ \E q \in GoodStops(taken[k]) :
                StopsOf(taken[k])[q] # StopForm(StopsOf(taken[k])[q], "hex")
          /\ \E q \in BadStops(taken[k]) :
                SetMin(GoodStops(taken[k])) < q /\ q < SetMax(GoodStops(taken[k]))


\* A raw field that holds a number: once trimmed, decimal digits after an
\* optional sign.  An absent, empty or sentinel-like field holds none.
Numeric(v) ==
    /\ Populated(v)
    /\ LET digits == IF Strip(v)[1] \in {"-", "+"} THEN Tail(Strip(v)) ELSE Strip(v)
       IN  digits # <<>> /\ \A q \in 1..Len(digits) : IsDigit(digits[q])

\* The number such a field holds.
NumberOf(v) ==
    IF Strip(v)[1] = "-" THEN 0 - DecVal(Tail(Strip(v)))
    ELSE IF Strip(v)[1] = "+" THEN DecVal(Tail(Strip(v)))
    ELSE DecVal(Strip(v))

\* The fields of a layer that safe_float reads.
FloatFields == {"rescale_min", "rescale_max", "legend_minimum", "legend_maximum"}

SourceParamsOf(k) == Get(output.layers[k], "sourceParams", <<>>)

\* C27: safe_float gives the absent marker for every field of a layer read
\* that is absent, empty, sentinel-like or no numeral, and the number of a
\* field that holds one, so that no missing value becomes 0 or any other
\* number; an output layer has `rescale` in its sourceParams only when both
\* its rescale fields hold numbers, and then these two, and `min` (`max`) in
\* its legend only when its legend minimum (maximum) holds a number, and
\* then this one.
C27_MissingIsNeverNumber ==
    /\ \A j \in Passed : \A nm \in FloatFields :
          IF Numeric(RawField(j, nm))
          THEN safe_float(RawField(j, nm)) = <<NumberOf(RawField(j, nm))>>
          ELSE safe_float(RawField(j, nm)) = <<>>
    /\ \A k \in 1..Len(output.layers) :
          /\ "rescale" \in DOMAIN SourceParamsOf(k)
                => /\ Numeric(RawField(taken[k], "rescale_min"))
                   /\ Numeric(RawField(taken[k], "rescale_max"))
                   /\ SourceParamsOf(k)["rescale"]
                         = << NumberOf(RawField(taken[k], "rescale_min")),
                              NumberOf(RawField(taken[k], "rescale_max")) >>
          /\ "min" \in DOMAIN LegendOf(k)
                => /\ Numeric(RawField(taken[k], "legend_minimum"))
                   /\ LegendOf(k)["min"] = NumberOf(RawField(taken[k], "legend_minimum"))
          /\ "max" \in DOMAIN LegendOf(k)
                => /\ Numeric(RawField(taken[k], "legend_maximum"))
                   /\ LegendOf(k)["max"] = NumberOf(RawField(taken[k], "legend_maximum"))

\* C27's case: a conversion is finished whose layer has a rescale maximum
\* that is a number and a rescale minimum that is none, and its sourceParams
\* hold a resampling but no `rescale`.
C27_Witness ==
    /\ pc = "done"
    /\ \E k \in 1..Len(output.layers) :
          /\ Numeric(RawField(taken[k], "rescale_max"))
          /\ ~Numeric(RawField(taken[k], "rescale_min"))
          /\ "resampling" \in DOMAIN SourceParamsOf(k)
          /\ "rescale" \notin DOMAIN SourceParamsOf(k)

====
